---- MODULE Spec2Model ----
(***************************************************************************)
(* A model of the conference-operations scripts of virtual-conference:     *)
(*   - core/schedule.py: Session.start_streaming / Session.stop_streaming  *)
(*     against the YouTube broadcast and the Zoom livestream,              *)
(*     Day.get_sessions and Session.session_time over the day sheet;       *)
(*   - auth0_helper.py: get_all, the registration sync;                    *)
(*   - email_upload_request.py: the command line and                       *)
(*     send_emails_to_authors;                                             *)
(*   - core/schedule.py: Session.create_virtual_session with               *)
(*     schedule_youtube_broadcast and schedule_zoom;                       *)
(*   - core/schedule.py: the text helpers (YouTube title and description,  *)
(*     time slot formatting, chat channel names, Session.__str__ and       *)
(*     make_calendar) and the time and length of the Zoom meeting.         *)
(* start_streaming is also followed statement by statement                 *)
(* (SpecStartSteps), and get_all as two runs at once (SpecRegTwo).         *)
(* Each script is its own specification over its own variables; the        *)
(* variables of the other scripts stay at their initial value.             *)
(***************************************************************************)
EXTENDS Integers, Sequences, FiniteSets, TLC

VARIABLES
    \* ---- the streaming lifecycle (schedule.py, Session.start/stop_streaming)
    slotType,      \* session -> "Time Slot Type" cell of every time slot
    slotNotes,     \* session -> "Special Notes" cell of every time slot
    computer,      \* session -> "Computer" cell of time slot 0
    bstatus,       \* YouTube: broadcast -> lifeCycleStatus
    bound,         \* YouTube: broadcast -> bound stream key id, or NoStream
    embeddable,    \* YouTube: broadcast -> the video's embeddable flag
    zoomLive,      \* Zoom: meeting -> its livestream has been started
    lastCall,      \* <<operation, session>> of the last call made
    log,           \* the external requests and waits of the last call, in order
    startRun,      \* a start_streaming call in progress: its position and locals
    \* ---- the day sheet (schedule.py, Day.get_sessions, Session.session_time)
    sheet,         \* row -> [Event, Session, TimeSlot] cells
    maxRow,        \* sheet.table.max_row
    dayDate,       \* <<month, day>> of the Day
    sessions,      \* what the last get_sessions returned (or NotCalled / an error)
    stime,         \* what the last session_time / timeslot_time call returned
    \* ---- the registration sync (auth0_helper.py, get_all)
    registered,    \* registered.json: email -> record, or NoRecord
    statsFile,     \* registration_stats.json: new_since_last, or NoFile
    run,           \* the running get_all: its arguments, locals and position
    lastSent,      \* the email the last loop iteration sent to, or NoMail
    mailed,        \* the emails mailed by earlier runs and by the current one
    procs,         \* two overlapping runs of get_all: each one's locals and mails
    \* ---- the author emails (email_upload_request.py)
    papersDb,      \* the papers database: a sequence of [UID, EventPrefix]
    args,          \* the parsed command line of the last invocation
    mails,         \* what the last invocation sent: <<paper, template>> in order
    outcome,       \* how the last invocation ended
    \* ---- scheduling a session (schedule.py, Session.create_virtual_session)
    slotCells,     \* time slot of the session -> its cells in the day sheet
    zoomMeetings,  \* Zoom: the ids of the meetings created so far
    ytBroadcasts,  \* YouTube: the ids of the broadcasts created so far
    schedCall,     \* the last scheduling call: its inputs and how it ended
    \* ---- the text helpers (schedule.py, module functions and Session texts)
    textIn,        \* the input of the last helper call
    textOut        \* what the last helper call returned

streamVars == <<slotType, slotNotes, computer, bstatus, bound, embeddable,
                zoomLive, lastCall, log, startRun>>
sheetVars == <<sheet, maxRow, dayDate, sessions, stime>>
regVars == <<registered, statsFile, run, lastSent, mailed, procs>>
mailVars == <<papersDb, args, mails, outcome>>
schedVars == <<slotCells, zoomMeetings, ytBroadcasts, schedCall>>
textVars == <<textIn, textOut>>
vars == <<streamVars, sheetVars, regVars, mailVars, schedVars, textVars>>

\* A cell openpyxl reads as None.
NoneVal == "<None>"

(***************************************************************************)
(* Part 1: the streaming lifecycle.                                        *)
(***************************************************************************)

\* How many sessions of the day are driven.
NumSessions == 2

StreamSessions == 1..NumSessions

\* The rows a session of the sheet may have: the "Time Slot Type" cell of each
\* of its two time slots and the "Special Notes" cell of each, the latter as
\* the list of its "|"-separated notes (empty for an empty cell).
SessionRows ==
    { [types |-> <<"Talk", "Zoom Only">>,    notes |-> <<<<"Live Captions">>, <<>>>>],
      [types |-> <<"Zoom Only", "Talk">>,    notes |-> <<<<>>, <<>>>>],
      [types |-> <<"Discord Only", "Talk">>, notes |-> <<<<>>, <<>>>>],
      [types |-> <<"Talk", "Talk">>,         notes |-> <<<<>>, <<"Manual Stream">>>>],
      [types |-> <<"Talk", "Talk">>,
       notes |-> <<<<"Live Captions", "Manual Stream">>, <<>>>>] }

\* lifeCycleStatus values of a YouTube broadcast.
BroadcastStatuses == {"created", "ready", "testing", "live", "complete"}

\* streamStatus and healthStatus values that liveStreams.list reports.
StreamStatuses == {"active", "inactive"}
HealthStatuses == {"good", "noData"}

NoStream == "<no stream>"

\* The computers table: row ID -> [Youtube Stream Key, Youtube Stream Key ID].
computers == [c \in {"A", "B"} |->
                [key |-> "key-" \o c, keyId |-> "keyid-" \o c]]

get_computer(c) == computers[c]

\* The broadcast of a session ("Youtube Broadcast" cell of slot 0) and its
\* Zoom meeting ("Zoom Meeting ID" cell of slot 0).
youtube_broadcast_id(s) == "broadcast-" \o ToString(s)

get_zoom_meeting_id(s) == "meeting-" \o ToString(s)

Broadcasts == {youtube_broadcast_id(s) : s \in StreamSessions}

Meetings == {get_zoom_meeting_id(s) : s \in StreamSessions}

timeslot_type(s) == slotType[s][1]

\* Mutant of lines 307 and 371: only "Zoom Only" is held back.
IsZoomOnly(t) == t = "Zoom Only"

\* Lines 307 and 371: the session is never streamed by the scripts.
IsZoomOrDiscordOnly(t) == t = "Zoom Only" \/ t = "Discord Only"

RECURSIVE NotesOfCells(_)
NotesOfCells(cells) ==
    IF cells = <<>> THEN {}
    ELSE {Head(cells)[i] : i \in 1..Len(Head(cells))} \cup NotesOfCells(Tail(cells))

special_notes(s) == NotesOfCells(slotNotes[s])

get_broadcast_status(s) == bstatus[youtube_broadcast_id(s)]

\* Mutants of the status check of line 323: "testing" let through; only
\* "live" held back.
CanStartFromTesting(status) ==
    status = "ready" \/ status = "created" \/ status = "testing"

CanStartUnlessLive(status) == status # "live"

\* Line 323: start_streaming goes on only from these states.
CanStartFrom(status) == status = "ready" \/ status = "created"

\* Mutant of the status checks of lines 382-388: the "not live" check dropped.
CanStopUnlessComplete(status) == status # "complete"

\* Lines 382 and 386: stop_streaming goes on only from this state.
CanStopFrom(status) == status # "complete" /\ status = "live"

\* Lines 349-360: what start_streaming does after its one poll of the stream.
\* A stream that is not active costs one more wait; retries is then 1, so the
\* "retries >= 2" message never prints; an unhealthy stream only prints a
\* warning. Neither branch returns.
WaitsAfterPoll(stream_status) ==
    IF stream_status # "active" THEN << <<"sleep", "10", "">> >> ELSE <<>>

ReturnsAfterPoll(stream_status, stream_health) == FALSE

\* liveBroadcasts.bind with a streamId: the broadcast holds the stream, and a
\* created broadcast becomes ready (comment of lines 321-322).
StatusAfterBind(status) == IF status = "created" THEN "ready" ELSE status

\* Mutant of lines 329-367: the broadcast is made live first and bound after.
StartRequestsLiveFirst(s, stream_status, stream_health) ==
    << <<"liveBroadcasts.transition", youtube_broadcast_id(s), "live">>,
       <<"liveBroadcasts.bind", youtube_broadcast_id(s),
         get_computer(computer[s]).keyId>>,
       <<"zoom.livestream", get_zoom_meeting_id(s), "start">>,
       <<"sleep", "10", "">>,
       <<"liveStreams.list", stream_status, stream_health>> >>

\* The requests and waits of start_streaming once the status check passed
\* (lines 327-367), given what the one poll of the stream returns.
StartRequests(s, stream_status, stream_health) ==
    << <<"liveBroadcasts.bind", youtube_broadcast_id(s),
         get_computer(computer[s]).keyId>>,
       <<"zoom.livestream", get_zoom_meeting_id(s), "start">>,
       <<"sleep", "10", "">>,
       <<"liveStreams.list", stream_status, stream_health>> >>
    \o WaitsAfterPoll(stream_status)
    \o (IF ReturnsAfterPoll(stream_status, stream_health) THEN <<>>
        ELSE << <<"liveBroadcasts.transition", youtube_broadcast_id(s), "live">> >>)

\* Mutant of lines 390-401: the stream is detached before the transition.
StopRequestsUnbindFirst(s) ==
    << <<"liveBroadcasts.bind", youtube_broadcast_id(s), NoStream>>,
       <<"liveBroadcasts.transition", youtube_broadcast_id(s), "complete">>,
       <<"videos.update", youtube_broadcast_id(s), "embeddable">>,
       <<"zoom.livestream", get_zoom_meeting_id(s), "stop">> >>

\* The requests of stop_streaming once the status check passed (lines 390-419).
StopRequests(s) ==
    << <<"liveBroadcasts.transition", youtube_broadcast_id(s), "complete">>,
       <<"liveBroadcasts.bind", youtube_broadcast_id(s), NoStream>>,
       <<"videos.update", youtube_broadcast_id(s), "embeddable">>,
       <<"zoom.livestream", get_zoom_meeting_id(s), "stop">> >>

\* The read of the broadcast status (lines 291-296), as it shows in the log.
StatusRead(s) ==
    <<"liveBroadcasts.list", youtube_broadcast_id(s), get_broadcast_status(s)>>

\* The providers' reaction to the requests of a call, one by one.
RECURSIVE ApplyRequests(_, _)
ApplyRequests(reqs, p) ==
    IF reqs = <<>> THEN p
    ELSE LET r == Head(reqs)
             q == CASE r[1] = "liveBroadcasts.bind" /\ r[3] # NoStream ->
                          [p EXCEPT !.bound[r[2]] = r[3],
                                    !.bstatus[r[2]] = StatusAfterBind(@)]
                    [] r[1] = "liveBroadcasts.bind" /\ r[3] = NoStream ->
                          [p EXCEPT !.bound[r[2]] = NoStream]
                    [] r[1] = "liveBroadcasts.transition" ->
                          [p EXCEPT !.bstatus[r[2]] = r[3]]
                    [] r[1] = "videos.update" ->
                          [p EXCEPT !.embeddable[r[2]] = TRUE]
                    [] r[1] = "zoom.livestream" ->
                          [p EXCEPT !.zoomLive[r[2]] = (r[3] = "start")]
                    [] OTHER -> p
         IN ApplyRequests(Tail(reqs), q)

Providers == [bstatus |-> bstatus, bound |-> bound,
              embeddable |-> embeddable, zoomLive |-> zoomLive]

\* What a whole call of start_streaming requests (lines 305-367).
start_streaming(s, stream_status, stream_health) ==
    IF IsZoomOrDiscordOnly(timeslot_type(s)) THEN <<>>
    ELSE IF "Manual Stream" \in special_notes(s) THEN <<>>
    ELSE IF ~CanStartFrom(get_broadcast_status(s)) THEN <<StatusRead(s)>>
    ELSE <<StatusRead(s)>> \o StartRequests(s, stream_status, stream_health)

\* What a whole call of stop_streaming requests (lines 369-419).
stop_streaming(s) ==
    IF IsZoomOrDiscordOnly(timeslot_type(s)) THEN <<>>
    ELSE IF "Manual Stream" \in special_notes(s) THEN <<>>
    ELSE IF ~CanStopFrom(get_broadcast_status(s)) THEN <<StatusRead(s)>>
    ELSE <<StatusRead(s)>> \o StopRequests(s)

StartStreaming(s) ==
    \E stream_status \in StreamStatuses, stream_health \in HealthStatuses :
        LET reqs == start_streaming(s, stream_status, stream_health)
            p == ApplyRequests(reqs, Providers)
        IN /\ lastCall' = <<"start_streaming", s>>
           /\ log' = reqs
           /\ bstatus' = p.bstatus
           /\ bound' = p.bound
           /\ embeddable' = p.embeddable
           /\ zoomLive' = p.zoomLive
           /\ UNCHANGED <<slotType, slotNotes, computer, startRun>>
           /\ UNCHANGED <<sheetVars, regVars, mailVars, schedVars, textVars>>

StopStreaming(s) ==
    LET reqs == stop_streaming(s)
        p == ApplyRequests(reqs, Providers)
    IN /\ lastCall' = <<"stop_streaming", s>>
       /\ log' = reqs
       /\ bstatus' = p.bstatus
       /\ bound' = p.bound
       /\ embeddable' = p.embeddable
       /\ zoomLive' = p.zoomLive
       /\ UNCHANGED <<slotType, slotNotes, computer, startRun>>
       /\ UNCHANGED <<sheetVars, regVars, mailVars, schedVars, textVars>>

NoCall == <<"none", 0>>

\* No start_streaming call is in progress.
NoStartRun == [pc |-> "idle", s |-> 0, retries |-> 0]

NoRun == "<none>"

\* The computer of each session: the first two sessions share computer A.
ComputerChoice(s) == IF s <= 2 THEN "A" ELSE "B"

\* A broadcast that is ready, testing or live holds its computer's stream.
InitStream ==
    /\ \E rows \in [StreamSessions -> SessionRows] :
          /\ slotType = [s \in StreamSessions |-> rows[s].types]
          /\ slotNotes = [s \in StreamSessions |-> rows[s].notes]
    /\ computer = [s \in StreamSessions |-> ComputerChoice(s)]
    /\ bstatus \in [Broadcasts -> BroadcastStatuses]
    /\ bound = [b \in Broadcasts |->
                  IF bstatus[b] \in {"ready", "testing", "live"}
                  THEN get_computer(
                         computer[CHOOSE s \in StreamSessions :
                                    youtube_broadcast_id(s) = b]).keyId
                  ELSE NoStream]
    /\ embeddable = [b \in Broadcasts |-> FALSE]
    /\ zoomLive = [m \in Meetings |->
                     \E s \in StreamSessions :
                        /\ get_zoom_meeting_id(s) = m
                        /\ get_broadcast_status(s) \in {"testing", "live"}]
    /\ lastCall = NoCall
    /\ log = <<>>
    /\ startRun = NoStartRun

IdleStream ==
    /\ slotType = <<>> /\ slotNotes = <<>> /\ computer = <<>>
    /\ bstatus = <<>> /\ bound = <<>> /\ embeddable = <<>> /\ zoomLive = <<>>
    /\ lastCall = NoCall /\ log = <<>> /\ startRun = NoStartRun

IdleSheet ==
    /\ sheet = <<>> /\ maxRow = 0 /\ dayDate = <<>>
    /\ sessions = <<>> /\ stime = NoRun

IdleReg ==
    /\ registered = <<>> /\ statsFile = NoRun /\ run = NoRun /\ lastSent = NoRun
    /\ mailed = NoRun /\ procs = <<>>

IdleMail ==
    /\ papersDb = <<>> /\ args = NoRun /\ mails = <<>> /\ outcome = NoRun

IdleSched ==
    /\ slotCells = <<>> /\ zoomMeetings = {} /\ ytBroadcasts = {} /\ schedCall = NoRun

IdleText ==
    /\ textIn = NoRun /\ textOut = NoRun

InitStreamSpec == InitStream /\ IdleSheet /\ IdleReg /\ IdleMail /\ IdleSched /\ IdleText

NextStream ==
    \/ \E s \in StreamSessions : StartStreaming(s)
    \/ \E s \in StreamSessions : StopStreaming(s)

SpecStream == InitStreamSpec /\ [][NextStream]_vars

(***************************************************************************)
(* start_streaming statement by statement (lines 305-367): startRun.pc is  *)
(* the statement the call is at, startRun.retries its local of line 347.   *)
(***************************************************************************)

\* The longest log a call is followed for.
MaxLog == 9

\* Mutant of lines 349-356: "while" for "if", the stream is polled again
\* after the retry wait.
AfterRetryWaitPollAgain == "poll"

\* Lines 349-358: after the retry wait the code falls through to the health
\* check and the transition.
AfterRetryWait == "live"

\* One request of the running call: logged and applied at the provider.
Request(req) ==
    LET p == ApplyRequests(<<req>>, Providers)
    IN /\ Len(log) < MaxLog
       /\ log' = Append(log, req)
       /\ bstatus' = p.bstatus
       /\ bound' = p.bound
       /\ embeddable' = p.embeddable
       /\ zoomLive' = p.zoomLive
       /\ UNCHANGED <<slotType, slotNotes, computer, lastCall>>
       /\ UNCHANGED <<sheetVars, regVars, mailVars, schedVars, textVars>>

\* Lines 305-325: the call begins; it returns at once for a session that is
\* never streamed, returns after the status read for a broadcast that cannot
\* be made live, and goes on to the bind otherwise.
StartEnter(s) ==
    /\ startRun = NoStartRun
    /\ lastCall' = <<"start_streaming", s>>
    /\ IF IsZoomOrDiscordOnly(timeslot_type(s)) \/ "Manual Stream" \in special_notes(s)
       THEN /\ log' = <<>>
            /\ startRun' = [pc |-> "done", s |-> s, retries |-> 0]
       ELSE /\ log' = <<StatusRead(s)>>
            /\ startRun' = [pc |-> IF CanStartFrom(get_broadcast_status(s))
                                   THEN "bind" ELSE "done",
                            s |-> s, retries |-> 0]
    /\ UNCHANGED <<slotType, slotNotes, computer, bstatus, bound, embeddable, zoomLive>>
    /\ UNCHANGED <<sheetVars, regVars, mailVars, schedVars, textVars>>

\* Lines 329-333.
StartBind ==
    /\ startRun.pc = "bind"
    /\ Request(<<"liveBroadcasts.bind", youtube_broadcast_id(startRun.s),
                 get_computer(computer[startRun.s]).keyId>>)
    /\ startRun' = [startRun EXCEPT !.pc = "zoom"]

\* Lines 336-340.
StartZoom ==
    /\ startRun.pc = "zoom"
    /\ Request(<<"zoom.livestream", get_zoom_meeting_id(startRun.s), "start">>)
    /\ startRun' = [startRun EXCEPT !.pc = "sleep"]

\* Lines 343-344.
StartSleep ==
    /\ startRun.pc = "sleep"
    /\ Request(<<"sleep", "10", "">>)
    /\ startRun' = [startRun EXCEPT !.pc = "poll"]

\* Lines 347-349: the poll of the stream and the branch on its status.
StartPoll ==
    /\ startRun.pc = "poll"
    /\ \E stream_status \in StreamStatuses, stream_health \in HealthStatuses :
          /\ Request(<<"liveStreams.list", stream_status, stream_health>>)
          /\ startRun' = [startRun EXCEPT
                            !.pc = IF stream_status # "active" THEN "retry" ELSE "live"]

\* Lines 350-356: the retry wait; retries counts it.
StartRetryWait ==
    /\ startRun.pc = "retry"
    /\ Request(<<"sleep", "10", "">>)
    /\ startRun' = [startRun EXCEPT !.pc = AfterRetryWait, !.retries = @ + 1]

\* Lines 358-367: the health warning and the transition, the last statement.
StartLive ==
    /\ startRun.pc = "live"
    /\ Request(<<"liveBroadcasts.transition", youtube_broadcast_id(startRun.s), "live">>)
    /\ startRun' = [startRun EXCEPT !.pc = "done"]

\* The call has returned; the caller may make the next call.
StartReturn ==
    /\ startRun.pc = "done"
    /\ startRun' = NoStartRun
    /\ UNCHANGED <<slotType, slotNotes, computer, bstatus, bound, embeddable,
                   zoomLive, lastCall, log>>
    /\ UNCHANGED <<sheetVars, regVars, mailVars, schedVars, textVars>>

\* stop_streaming, called between two calls of start_streaming.
StopBetweenCalls(s) ==
    /\ startRun = NoStartRun
    /\ StopStreaming(s)

NextStartSteps ==
    \/ \E s \in StreamSessions : StartEnter(s)
    \/ StartBind
    \/ StartZoom
    \/ StartSleep
    \/ StartPoll
    \/ StartRetryWait
    \/ StartLive
    \/ StartReturn
    \/ \E s \in StreamSessions : StopBetweenCalls(s)

\* A running call executes its next statement: every request returns and
\* every sleep ends.
StartRuns ==
    StartBind \/ StartZoom \/ StartSleep \/ StartPoll \/ StartRetryWait
        \/ StartLive

SpecStartSteps ==
    InitStreamSpec /\ [][NextStartSteps]_vars /\ WF_vars(StartRuns)

(***************************************************************************)
(* Claims about the streaming lifecycle, checked under SpecStream.         *)
(***************************************************************************)

Started(s) == lastCall = <<"start_streaming", s>>

Stopped(s) == lastCall = <<"stop_streaming", s>>

\* The status the last call read, when it read one.
ReadStatus == log[1][3]

\* The requests of the last call that change something at a provider.
Acting(r) ==
    r[1] \in {"liveBroadcasts.bind", "liveBroadcasts.transition",
              "videos.update", "zoom.livestream"}

ActingRequests == {i \in 1..Len(log) : Acting(log[i])}

\* C1: start_streaming acts only when the broadcast status it reads is
\* "ready" or "created": for any other status it binds no stream, sends Zoom
\* nothing and requests no transition.
C1_StartOnlyFromReadyOrCreated ==
    \A s \in StreamSessions :
        Started(s) /\ log # <<>> /\ ReadStatus \notin {"ready", "created"}
            => ActingRequests = {}

C1_Witness ==
    \E s \in StreamSessions :
        /\ Started(s) /\ log # <<>>
        /\ ReadStatus = "testing"
        /\ ActingRequests = {}

\* C2 (as claimed): when the one poll of the stream reports it not active
\* or not healthy, start_streaming does not request the "live" transition.
C2_NoLiveWhenStreamNotActive ==
    \A s \in StreamSessions :
        Started(s) =>
            \A i \in 1..Len(log) :
                /\ log[i][1] = "liveStreams.list"
                /\ (log[i][2] # "active" \/ log[i][3] # "good")
                => \A j \in 1..Len(log) :
                      ~(log[j][1] = "liveBroadcasts.transition" /\ log[j][3] = "live")

\* C3: stop_streaming acts only when the broadcast status it reads is "live"
\* (nothing for "complete", nothing for any other status), and a second
\* stop_streaming right after a first changes nothing at the providers.
C3_StopOnlyFromLive ==
    /\ [](\A s \in StreamSessions :
            Stopped(s) /\ log # <<>> /\ ReadStatus # "live" => ActingRequests = {})
    /\ [][\A s \in StreamSessions :
            Stopped(s) /\ Stopped(s)' => Providers' = Providers]_vars

C3_Witness ==
    \E s \in StreamSessions :
        /\ Stopped(s) /\ log # <<>>
        /\ ReadStatus = "complete"
        /\ ActingRequests = {}
        /\ embeddable[youtube_broadcast_id(s)]

\* C4: stop_streaming on a streamable session whose broadcast is "live" makes
\* exactly four requests after reading the status, in this order: transition
\* to "complete", bind with no stream, video update to embeddable, Zoom
\* livestream "stop".
C4_StopFourStepsInOrder ==
    \A s \in StreamSessions :
        Stopped(s) /\ log # <<>> /\ ReadStatus = "live" =>
            /\ Len(log) = 5
            /\ log[2][1] = "liveBroadcasts.transition" /\ log[2][3] = "complete"
            /\ log[3][1] = "liveBroadcasts.bind" /\ log[3][3] = NoStream
            /\ log[4][1] = "videos.update" /\ log[4][3] = "embeddable"
            /\ log[5][1] = "zoom.livestream" /\ log[5][3] = "stop"
            /\ \A i \in 2..4 : log[i][2] = youtube_broadcast_id(s)
            /\ log[5][2] = get_zoom_meeting_id(s)

C4_Witness ==
    \E s \in StreamSessions :
        /\ Stopped(s) /\ Len(log) = 5 /\ ReadStatus = "live"
        /\ bstatus[youtube_broadcast_id(s)] = "complete"
        /\ bound[youtube_broadcast_id(s)] = NoStream
        /\ ~zoomLive[get_zoom_meeting_id(s)]

StatusRank(status) ==
    CASE status = "created" -> 1
      [] status = "ready" -> 2
      [] status = "testing" -> 3
      [] status = "live" -> 4
      [] status = "complete" -> 5

\* C5: under any sequence of start_streaming and stop_streaming calls a
\* broadcast's status never moves back along created, ready, live, complete;
\* it becomes "live" only from "created" or "ready", "complete" only from
\* "live", and a "complete" broadcast stays "complete".
C5_StatusOnlyMovesForward ==
    [][\A b \in Broadcasts :
          /\ StatusRank(bstatus'[b]) >= StatusRank(bstatus[b])
          /\ (bstatus'[b] = "live" /\ bstatus[b] # "live"
                 => bstatus[b] \in {"created", "ready"})
          /\ (bstatus'[b] = "complete" /\ bstatus[b] # "complete"
                 => bstatus[b] = "live")
          /\ (bstatus[b] = "complete" => bstatus'[b] = "complete")]_vars

C5_Witness ==
    \E s \in StreamSessions :
        /\ Started(s) /\ log # <<>>
        /\ ReadStatus = "complete"
        /\ embeddable[youtube_broadcast_id(s)]
        /\ bstatus[youtube_broadcast_id(s)] = "complete"

\* The positions of the log at which the "live" transition is requested.
LiveRequests ==
    {i \in 1..Len(log) : log[i][1] = "liveBroadcasts.transition" /\ log[i][3] = "live"}

\* C17: a run of start_streaming that requests the "live" transition has,
\* before it and in this order, bound the computer's stream key id to the
\* broadcast, sent Zoom the livestream "start", waited ten seconds and polled
\* the stream status; it polls exactly once and requests "live" once.
C17_LiveAfterBindStartWaitPoll ==
    \A s \in StreamSessions :
        Started(s) /\ LiveRequests # {} =>
            /\ log[2] = <<"liveBroadcasts.bind", youtube_broadcast_id(s),
                          get_computer(computer[s]).keyId>>
            /\ log[3] = <<"zoom.livestream", get_zoom_meeting_id(s), "start">>
            /\ log[4] = <<"sleep", "10", "">>
            /\ log[5][1] = "liveStreams.list"
            /\ Cardinality({i \in 1..Len(log) : log[i][1] = "liveStreams.list"}) = 1
            /\ LiveRequests = {Len(log)}
            /\ Len(log) > 5

C17_Witness ==
    \E s \in StreamSessions :
        /\ Started(s) /\ Len(log) = 7
        /\ log[1][3] = "created"
        /\ log[5] = <<"liveStreams.list", "inactive", "noData">>
        /\ log[6][1] = "sleep"
        /\ LiveRequests = {7}
        /\ bstatus[youtube_broadcast_id(s)] = "live"

\* The session's first time slot is "Zoom Only" or "Discord Only", or one of
\* its "Special Notes" cells lists "Manual Stream".
NeverStreamed(s) ==
    \/ slotType[s][1] \in {"Zoom Only", "Discord Only"}
    \/ \E t \in 1..Len(slotNotes[s]) :
          \E n \in 1..Len(slotNotes[s][t]) : slotNotes[s][t][n] = "Manual Stream"

\* C21: for a session whose first time slot is "Zoom Only" or "Discord Only",
\* or whose special notes contain "Manual Stream", a call of start_streaming
\* or stop_streaming makes no external request at all (no status read, no
\* bind, no transition, no Zoom request), leaves the providers as they were
\* and changes no cell of the sheet.
C21_SkippedSessionsTouchNothing ==
    [][\A s \in StreamSessions :
          NeverStreamed(s) /\ (Started(s)' \/ Stopped(s)') =>
              /\ log' = <<>>
              /\ Providers' = Providers
              /\ UNCHANGED <<slotType, slotNotes, computer>>]_vars

C21_Witness ==
    \E s \in StreamSessions :
        /\ Stopped(s) /\ log = <<>>
        /\ slotType[s][1] = "Discord Only"
        /\ bstatus[youtube_broadcast_id(s)] = "live"
        /\ bound[youtube_broadcast_id(s)] # NoStream

\* The positions of the log of the running call that are waits, and polls.
Waits == {i \in 1..Len(log) : log[i][1] = "sleep"}

Polls == {i \in 1..Len(log) : log[i][1] = "liveStreams.list"}

StartRunning == startRun.pc \notin {"idle", "done"}

\* C23: a call of start_streaming always returns; it waits at most twice
\* (once before the poll and once more when the stream is not active), polls
\* the stream at most once and never after the retry wait.
C23_StartStreamingTerminates ==
    /\ [](startRun.pc # "idle" =>
            /\ Cardinality(Waits) <= 2
            /\ Cardinality(Polls) <= 1
            /\ startRun.retries <= 1
            /\ (Cardinality(Waits) = 2 <=> startRun.retries = 1)
            /\ \A i \in Polls : \A j \in Waits : j > i => startRun.retries = 1
            /\ (startRun.retries = 1 => \A i \in Polls : \E j \in Waits : j > i))
    /\ (StartRunning ~> startRun.pc = "done")

C23_Witness ==
    /\ startRun.pc = "done"
    /\ startRun.retries = 1
    /\ Len(log) = 7
    /\ Cardinality(Waits) = 2
    /\ log[5] = <<"liveStreams.list", "inactive", "good">>
    /\ log[6][1] = "sleep"
    /\ log[7] = <<"liveBroadcasts.transition", youtube_broadcast_id(startRun.s), "live">>

\* No two broadcasts that hold the same stream key are both "live".
OneLivePerStreamKey ==
    \A b1, b2 \in Broadcasts :
        /\ b1 # b2
        /\ bstatus[b1] = "live" /\ bstatus[b2] = "live"
        /\ bound[b1] # NoStream
        => bound[b1] # bound[b2]

\* C26 (as claimed): a computer's stream key feeds at most one live broadcast
\* at a time: no call of start_streaming or stop_streaming on sessions of the
\* same computer leads from a state with at most one live broadcast per
\* stream key to a state with two live broadcasts bound to the same key.
C26_OneLiveBroadcastPerStreamKey ==
    [][OneLivePerStreamKey => OneLivePerStreamKey']_vars

(***************************************************************************)
(* Part 2: the day sheet, Day.get_sessions and Session.session_time.       *)
(***************************************************************************)

\* sheet.table.max_row of the largest sheet; session rows start at row 3.
MaxRow == 5

FirstRow == 3

CONFERENCE_YEAR == 2021

\* conf_tz = timezone(-timedelta(hours=5)), in hours.
ConfTzHours == -5

\* The "Event" and "Session" cells a row may hold. An empty row has neither;
\* the last one has an event and no session name.
RowNames ==
    { [Event |-> NoneVal, Session |-> NoneVal],
      [Event |-> "BREAK", Session |-> "c"],
      [Event |-> "a",     Session |-> "c"],
      [Event |-> "a",     Session |-> "b-c"],
      [Event |-> "a-b",   Session |-> "c"],
      [Event |-> "a-b",   Session |-> "b-c"],
      [Event |-> "a",     Session |-> NoneVal] }

\* A "Time Slot" cell, character by character.
Chars(a, b, c, d, e, f, g, h, i) == <<a, b, c, d, e, f, g, h, i>>

\* The "Time Slot" cells a row may hold: two well-formed ones, one with
\* text after the slot, one with minute 60, one that is no time slot.
TimeSlotCells ==
    { Chars("0", "9", "0", "0", "-", "1", "0", "3", "0"),
      Chars("1", "0", "4", "5", "-", "1", "2", "0", "5"),
      Chars("1", "3", "0", "0", "-", "1", "3", "1", "5") \o <<"x">>,
      Chars("2", "3", "6", "0", "-", "0", "0", "0", "0"),
      <<"9", ":", "0", "0">> }

DefaultTimeSlot == Chars("0", "9", "0", "0", "-", "1", "0", "3", "0")

Digits == <<"0", "1", "2", "3", "4", "5", "6", "7", "8", "9">>

IsDigit(c) == \E d \in 1..10 : Digits[d] = c

\* int() of a one-digit string.
DigitVal(c) == (CHOOSE d \in 1..10 : Digits[d] = c) - 1

\* int(m.group(k)) for the two-digit group starting at character i.
GroupVal(cell, i) == 10 * DigitVal(cell[i]) + DigitVal(cell[i + 1])

\* match_timeslot.match(time_slot): the pattern matches a prefix of the cell.
MatchTimeslot(cell) ==
    /\ Len(cell) >= 9
    /\ \A i \in {1, 2, 3, 4, 6, 7, 8, 9} : IsDigit(cell[i])
    /\ cell[5] = "-"

NoDate == [year |-> 0, month |-> 0, day |-> 0, hour |-> 0, minute |-> 0,
           utcoffset |-> 0]

\* datetime(CONFERENCE_YEAR, month, day, hour=.., minute=.., tzinfo=conf_tz)
Datetime(month, day, hour, minute) ==
    [year |-> CONFERENCE_YEAR, month |-> month, day |-> day, hour |-> hour,
     minute |-> minute, utcoffset |-> ConfTzHours]

ValidTime(hour, minute) == hour \in 0..23 /\ minute \in 0..59

Raised(e) == [err |-> e, start |-> NoDate, end |-> NoDate]

\* parse_time_slot (lines 44-48): (start, end), or the exception raised: m is
\* None when the cell does not match, datetime rejects an hour or minute out
\* of range.
parse_time_slot(time_slot, month, day) ==
    IF ~MatchTimeslot(time_slot) THEN Raised("AttributeError")
    ELSE IF ~ValidTime(GroupVal(time_slot, 1), GroupVal(time_slot, 3))
            \/ ~ValidTime(GroupVal(time_slot, 6), GroupVal(time_slot, 8))
         THEN Raised("ValueError")
    ELSE [err |-> "",
          start |-> Datetime(month, day, GroupVal(time_slot, 1), GroupVal(time_slot, 3)),
          end |-> Datetime(month, day, GroupVal(time_slot, 6), GroupVal(time_slot, 8))]

entry(row, item) == sheet[row][item]

\* Line 207.
SessionKey(event_name, session_name) == event_name \o "-" \o session_name

\* Mutant of line 203: a BREAK row is skipped whatever include_breaks is.
SkipsBreaksAlways(include_breaks, event_name) ==
    event_name = "BREAK" \/ event_name = NoneVal

\* Line 203 and 205: the row is skipped.
SkipsRow(include_breaks, event_name) ==
    (~include_breaks /\ event_name = "BREAK") \/ event_name = NoneVal

NewSession(event, name) == [event |-> event, name |-> name, timeslots |-> <<>>]

\* Mutant of lines 208-210: a key met again after rows of another key starts
\* the Session afresh, so that a Session is one run of adjacent rows.
AddRowContiguous(acc, key, event_name, session_name, r) ==
    IF key \in DOMAIN acc /\ acc[key].timeslots[Len(acc[key].timeslots)] = r - 1
    THEN [acc EXCEPT ![key].timeslots = Append(@, r)]
    ELSE [k \in DOMAIN acc \cup {key} |->
            IF k = key
            THEN [NewSession(event_name, session_name) EXCEPT !.timeslots = <<r>>]
            ELSE acc[k]]

\* Lines 208-210: the Session of the key, made when the key is new, gets the row.
AddRow(acc, key, event_name, session_name, r) ==
    IF key \in DOMAIN acc
    THEN [acc EXCEPT ![key].timeslots = Append(@, r)]
    ELSE [k \in DOMAIN acc \cup {key} |->
            IF k = key
            THEN [NewSession(event_name, session_name) EXCEPT !.timeslots = <<r>>]
            ELSE acc[k]]

NoSessions == [k \in {} |-> NewSession("", "")]

\* The loop of get_sessions from row r on (lines 200-210), acc being the
\* sessions dictionary so far. A row with an event and no session name
\* raises TypeError at line 207.
RECURSIVE get_sessions_from(_, _, _)
get_sessions_from(r, include_breaks, acc) ==
    IF r > maxRow THEN [err |-> "", include_breaks |-> include_breaks, map |-> acc]
    ELSE LET event_name == entry(r, "Event")
             session_name == entry(r, "Session")
         IN IF SkipsRow(include_breaks, event_name)
            THEN get_sessions_from(r + 1, include_breaks, acc)
            ELSE IF session_name = NoneVal
            THEN [err |-> "TypeError", include_breaks |-> include_breaks,
                  map |-> NoSessions]
            ELSE get_sessions_from(r + 1, include_breaks,
                    AddRow(acc, SessionKey(event_name, session_name),
                           event_name, session_name, r))

get_sessions(include_breaks) == get_sessions_from(FirstRow, include_breaks, NoSessions)

NotCalled == [err |-> NoRun, include_breaks |-> FALSE, map |-> NoSessions]

timeslot_entry(session, t, item) == entry(session.timeslots[t + 1], item)

\* Session.timeslot_time (lines 228-229).
timeslot_time(session, t) ==
    parse_time_slot(timeslot_entry(session, t, "TimeSlot"), dayDate[1], dayDate[2])

\* The (start, end) a pair of parsed slots gives, or the first exception.
StartToEnd(first, last) ==
    IF first.err # "" THEN Raised(first.err)
    ELSE IF last.err # "" THEN Raised(last.err)
    ELSE [err |-> "", start |-> first.start, end |-> last.end]

\* Mutant of lines 238-239: the end is taken from the first time slot.
session_time_first_slot(session) ==
    StartToEnd(timeslot_time(session, 0), timeslot_time(session, 0))

\* Session.session_time (lines 237-239).
session_time(session) ==
    StartToEnd(timeslot_time(session, 0),
               timeslot_time(session, Len(session.timeslots) - 1))

NoResult == Raised(NoRun)

NoTimes == [key |-> "", total |-> NoResult, t |-> 0, slot |-> NoResult]

SessionTime(key) ==
    /\ sessions.err = "" /\ key \in DOMAIN sessions.map
    /\ stime' = [key |-> key,
                 total |-> session_time(sessions.map[key]),
                 t |-> IF stime.key = key THEN stime.t ELSE 0,
                 slot |-> IF stime.key = key THEN stime.slot ELSE NoResult]
    /\ UNCHANGED <<sheet, maxRow, dayDate, sessions>>
    /\ UNCHANGED <<streamVars, regVars, mailVars, schedVars, textVars>>

TimeslotTime(key, t) ==
    /\ sessions.err = "" /\ key \in DOMAIN sessions.map
    /\ t < Len(sessions.map[key].timeslots)
    /\ stime' = [key |-> key,
                 total |-> IF stime.key = key THEN stime.total ELSE NoResult,
                 t |-> t,
                 slot |-> timeslot_time(sessions.map[key], t)]
    /\ UNCHANGED <<sheet, maxRow, dayDate, sessions>>
    /\ UNCHANGED <<streamVars, regVars, mailVars, schedVars, textVars>>

GetSessions(include_breaks) ==
    /\ sessions' = get_sessions(include_breaks)
    /\ stime' = NoTimes
    /\ UNCHANGED <<sheet, maxRow, dayDate>>
    /\ UNCHANGED <<streamVars, regVars, mailVars, schedVars, textVars>>

InitSheet ==
    /\ maxRow \in FirstRow..MaxRow
    /\ \E names \in [FirstRow..maxRow -> RowNames] :
          sheet = [r \in FirstRow..maxRow |->
                     [Event |-> names[r].Event, Session |-> names[r].Session,
                      TimeSlot |-> DefaultTimeSlot]]
    /\ dayDate = <<10, 25>>
    /\ sessions = NotCalled
    /\ stime = NoTimes

InitSheetSpec == IdleStream /\ InitSheet /\ IdleReg /\ IdleMail /\ IdleSched /\ IdleText

NextSheet == \E include_breaks \in BOOLEAN : GetSessions(include_breaks)

SpecSheet == InitSheetSpec /\ [][NextSheet]_vars

(***************************************************************************)
(* Claims about get_sessions, checked under SpecSheet.                     *)
(***************************************************************************)

Returned == sessions.err = ""

SessionKeys == DOMAIN sessions.map

RowsOf(key) ==
    {sessions.map[key].timeslots[i] : i \in 1..Len(sessions.map[key].timeslots)}

\* The rows get_sessions does not skip.
Eligible(r) ==
    /\ sheet[r].Event # NoneVal
    /\ sessions.include_breaks \/ sheet[r].Event # "BREAK"

\* C6 (as claimed): the rows of a returned Session form a run: no row that
\* lies between two of them belongs to a different Session.
C6_SessionsAreContiguous ==
    Returned =>
        \A key \in SessionKeys, other \in SessionKeys :
            other # key =>
                \A r \in RowsOf(other) :
                    ~(\E lo \in RowsOf(key), hi \in RowsOf(key) : lo < r /\ r < hi)

Ascending(seq) == \A i \in 1..(Len(seq) - 1) : seq[i] < seq[i + 1]

\* C6 (amended): a returned Session holds, in ascending row order, every row
\* that is not skipped and carries its key "Event-Session", wherever in the
\* sheet the row lies; rows of other Sessions may lie in between.
C6_SessionsHoldAllRowsOfKey ==
    Returned =>
        \A key \in SessionKeys :
            /\ Ascending(sessions.map[key].timeslots)
            /\ RowsOf(key) =
                 {r \in FirstRow..maxRow :
                    /\ Eligible(r)
                    /\ sheet[r].Event \o "-" \o sheet[r].Session = key}

C6_Witness ==
    /\ Returned
    /\ \E key \in SessionKeys, other \in SessionKeys :
          /\ other # key
          /\ \E r \in RowsOf(other), lo \in RowsOf(key), hi \in RowsOf(key) :
                lo < r /\ r < hi

\* Where row r is held: the (key, position) pairs of the returned Sessions.
PlacesOf(r) ==
    {p \in {<<key, i>> : key \in SessionKeys, i \in 1..MaxRow} :
        /\ p[2] <= Len(sessions.map[p[1]].timeslots)
        /\ sessions.map[p[1]].timeslots[p[2]] = r}

\* C18: what get_sessions returns partitions the rows it does not skip: each
\* row from 3 to max_row with an Event (that is not BREAK when include_breaks
\* is false) is held once by exactly one Session, every other row by none,
\* and each Session's rows are in strictly ascending order.
C18_SessionsPartitionEligibleRows ==
    Returned =>
        /\ \A r \in 1..MaxRow :
              Cardinality(PlacesOf(r)) =
                 IF r \in FirstRow..maxRow /\ Eligible(r) THEN 1 ELSE 0
        /\ \A key \in SessionKeys :
              /\ Ascending(sessions.map[key].timeslots)
              /\ RowsOf(key) \subseteq FirstRow..maxRow

C18_Witness ==
    /\ Returned /\ ~sessions.include_breaks
    /\ maxRow = MaxRow
    /\ \E r \in FirstRow..maxRow : sheet[r].Event = "BREAK" /\ PlacesOf(r) = {}
    /\ \E r \in FirstRow..maxRow : sheet[r].Event = NoneVal /\ PlacesOf(r) = {}
    /\ \E key \in SessionKeys : Len(sessions.map[key].timeslots) = 1
    /\ Cardinality(SessionKeys) = 1

Pair(r) == <<sheet[r].Event, sheet[r].Session>>

\* C7 (as claimed): two rows of one returned Session have the same
\* (Event, Session) pair, and two rows with the same pair that are not
\* skipped are in the same Session.
C7_SessionIsOnePair ==
    Returned =>
        /\ \A key \in SessionKeys :
              \A r1 \in RowsOf(key), r2 \in RowsOf(key) : Pair(r1) = Pair(r2)
        /\ \A r1 \in FirstRow..maxRow, r2 \in FirstRow..maxRow :
              Eligible(r1) /\ Eligible(r2) /\ Pair(r1) = Pair(r2) =>
                  \E key \in SessionKeys : {r1, r2} \subseteq RowsOf(key)

(***************************************************************************)
(* Session.session_time, on sheets whose rows hold any of the time slot    *)
(* cells, under SpecTime.                                                  *)
(***************************************************************************)

TimedRowNames ==
    { [Event |-> "a", Session |-> "c"], [Event |-> "a-b", Session |-> "c"] }

ConferenceDays == { <<10, 25>>, <<10, 26>> }

InitTime ==
    /\ maxRow \in FirstRow..MaxRow
    /\ \E names \in [FirstRow..maxRow -> TimedRowNames],
          slots \in [FirstRow..maxRow -> TimeSlotCells] :
          sheet = [r \in FirstRow..maxRow |->
                     [Event |-> names[r].Event, Session |-> names[r].Session,
                      TimeSlot |-> slots[r]]]
    /\ dayDate \in ConferenceDays
    /\ sessions = NotCalled
    /\ stime = NoTimes

InitTimeSpec == IdleStream /\ InitTime /\ IdleReg /\ IdleMail /\ IdleSched /\ IdleText

NextTime ==
    \/ GetSessions(FALSE)
    \/ \E key \in DOMAIN sessions.map : SessionTime(key)
    \/ \E key \in DOMAIN sessions.map, t \in 0..(MaxRow - FirstRow) :
          TimeslotTime(key, t)

SpecTime == InitTimeSpec /\ [][NextTime]_vars

\* The number written as two digits at characters i and i+1 of a cell.
TwoDigits(cell, i) ==
    IF Len(cell) > i /\ (\E d \in 1..10 : Digits[d] = cell[i])
                     /\ (\E d \in 1..10 : Digits[d] = cell[i + 1])
    THEN 10 * ((CHOOSE d \in 1..10 : Digits[d] = cell[i]) - 1)
            + ((CHOOSE d \in 1..10 : Digits[d] = cell[i + 1]) - 1)
    ELSE -1

FirstCell(key) == sheet[sessions.map[key].timeslots[1]].TimeSlot

LastCell(key) ==
    sheet[sessions.map[key].timeslots[Len(sessions.map[key].timeslots)]].TimeSlot

\* C8: session_time returns the start written in the first time slot's
\* "HHMM-HHMM" cell and the end written in the last one's, both on the Day's
\* month and day in the conference year and time zone; for a session of one
\* time slot it returns what timeslot_time(0) returns.
C8_SessionTimeFirstStartLastEnd ==
    \A key \in SessionKeys :
        stime.key = key /\ stime.total.err # NoRun =>
            /\ stime.total.err = "" =>
                  /\ stime.total.start =
                        [year |-> 2021, month |-> dayDate[1], day |-> dayDate[2],
                         hour |-> TwoDigits(FirstCell(key), 1),
                         minute |-> TwoDigits(FirstCell(key), 3),
                         utcoffset |-> -5]
                  /\ stime.total.end =
                        [year |-> 2021, month |-> dayDate[1], day |-> dayDate[2],
                         hour |-> TwoDigits(LastCell(key), 6),
                         minute |-> TwoDigits(LastCell(key), 8),
                         utcoffset |-> -5]
            /\ (Len(sessions.map[key].timeslots) = 1
                   /\ stime.slot.err # NoRun /\ stime.t = 0)
                  => stime.total = stime.slot

C8_Witness ==
    \E key \in SessionKeys :
        /\ stime.key = key /\ stime.total.err = ""
        /\ Len(sessions.map[key].timeslots) = 2
        /\ FirstCell(key) # LastCell(key)
        /\ stime.total.start.hour = 9 /\ stime.total.end.hour = 12
        /\ stime.total.end.minute = 5

(***************************************************************************)
(* Part 3: auth0_helper.py, get_all: the registration sync.                *)
(***************************************************************************)

\* How many attendees Eventbrite returns at most.
MaxResults == 2

\* The one attendee name of the model, and the attendees' emails; an
\* attendee's profile may hold an empty email.
AttendeeName == "name"

Emails == {"e1", "e2"}

\* The order in which all_registered.items() yields the emails.
EmailOrder == <<"e1", "e2">>

NoMail == "<no mail>"

NoPassword == "<no password>"

\* A record of registered.json; "emailed" may be missing from a record
\* written before the flag existed (lines 185-186).
NoRecord == [in |-> FALSE, name |-> "", password |-> NoPassword, emailed |-> "missing"]

Records ==
    { [in |-> TRUE, name |-> AttendeeName, password |-> "stored", emailed |-> e] :
        e \in {"true", "false", "missing"} }

RECURSIVE SeqsUpTo(_, _)
SeqsUpTo(S, n) ==
    IF n = 0 THEN {<<>>}
    ELSE LET shorter == SeqsUpTo(S, n - 1)
         IN shorter \cup {Append(q, x) : q \in {t \in shorter : Len(t) = n - 1}, x \in S}

\* get_new_eventbrite (lines 131-163): the (name, email) of every attendee.
get_new_eventbrite ==
    SeqsUpTo({<<AttendeeName, e>> : e \in Emails \cup {""}}, MaxResults)

\* get_any_password_requests (lines 119-129): the lines of the password
\* request files.
get_any_password_requests == SUBSET Emails

\* load_already_registered: the content of registered.json, {} without it.
load_already_registered == registered

\* Lines 184-186: records without the flag get "emailed": False.
WithEmailedDefault(all_registered) ==
    [e \in Emails |->
        IF all_registered[e].in /\ all_registered[e].emailed = "missing"
        THEN [all_registered[e] EXCEPT !.emailed = "false"]
        ELSE all_registered[e]]

\* Lines 187-188: the registered and not yet emailed are appended to results.
RECURSIVE NotEmailedFrom(_, _)
NotEmailedFrom(all_registered, k) ==
    IF k > Len(EmailOrder) THEN <<>>
    ELSE LET e == EmailOrder[k]
         IN (IF all_registered[e].in /\ all_registered[e].emailed # "true"
             THEN << <<all_registered[e].name, e>> >> ELSE <<>>)
            \o NotEmailedFrom(all_registered, k + 1)

\* send_register_email: the mail is sent (TRUE) or the call raises (FALSE).
send_register_email == BOOLEAN

\* format_to_auth0 is defined with three parameters (line 40).
format_to_auth0_accepts(nargs) == nargs = 3

\* Line 199: the registrant is added (or added again) and emailed.
NeedsAdding(all_registered, email) ==
    ~all_registered[email].in \/ all_registered[email].emailed # "true"

\* Mutant of line 217: every registrant already emailed is sent the mail again.
ResendAlways(password_requests, email) == TRUE

\* Line 217: an emailed registrant is sent the mail again on request.
ResendRequested(password_requests, email) == email \in password_requests

\* Mutant of lines 226-231: what send_register_email raises is not caught.
LetsSendErrorThrough == FALSE

\* Lines 226 and 230: the send is inside try ... except Exception.
CatchesSendError == TRUE

\* The turn of the loop the run is about to take gets to the send of line
\* 228: session.email is set, the entry has an email, and it is added
\* (without the TypeError of line 211) or has a password request.
ReachesSend(r) ==
    /\ r.pc = "loop" /\ r.email
    /\ r.i <= Len(r.results)
    /\ ~(r.max_new > 0 /\ Len(r.all_new) >= r.max_new)
    /\ LET email == r.results[r.i][2]
       IN /\ email # ""
          /\ IF NeedsAdding(r.all_registered, email) THEN format_to_auth0_accepts(4)
             ELSE ResendRequested(r.password_requests, email)

NotRunning ==
    [pc |-> "idle", results |-> <<>>, i |-> 0, password_requests |-> {},
     all_registered |-> [e \in Emails |-> NoRecord], all_new |-> <<>>,
     transmit_to_auth0 |-> FALSE, email |-> FALSE, max_new |-> 0 - 1]

\* get_all up to its loop (lines 178-190): the locals the loop starts with,
\* given what the three loads returned.
locals_at_loop(results, password_requests, loaded, transmit_to_auth0, email, max_new) ==
    LET all_registered == WithEmailedDefault(loaded)
    IN [pc |-> "loop",
        results |-> results \o NotEmailedFrom(all_registered, 1),
        i |-> 1,
        password_requests |-> password_requests,
        all_registered |-> all_registered,
        all_new |-> <<>>,
        transmit_to_auth0 |-> transmit_to_auth0,
        email |-> email,
        max_new |-> max_new]

RunStart ==
    /\ run.pc \in {"idle", "done", "raised"}
    /\ \E results \in get_new_eventbrite,
          password_requests \in get_any_password_requests,
          transmit_to_auth0 \in BOOLEAN, email \in BOOLEAN,
          max_new \in {0 - 1, 1} :
          run' = locals_at_loop(results, password_requests, load_already_registered,
                                transmit_to_auth0, email, max_new)
    /\ lastSent' = NoMail
    /\ mailed' = [earlier |-> mailed.earlier \cup mailed.now, now |-> {}, failed |-> {}]
    /\ UNCHANGED <<registered, statsFile, procs>>
    /\ UNCHANGED <<streamVars, sheetVars, mailVars, schedVars, textVars>>

\* One turn of the loop over results (lines 191-231), or its end, for a run
\* with locals r: the locals after it and the email the mail was sent to. The
\* TypeError of line 211 is caught nowhere: it ends the run, whose locals
\* are gone. send_register_email either sends the mail (sent) or raises; what
\* it raises is caught and printed (lines 230-231).
loop_turn(r, sent) ==
    IF r.i > Len(r.results) \/ (r.max_new > 0 /\ Len(r.all_new) >= r.max_new)
    THEN [run |-> [r EXCEPT !.pc = "finish"], lastSent |-> NoMail]
    ELSE LET email == r.results[r.i][2]
             next == [r EXCEPT !.i = @ + 1]
             raised == [run |-> [NotRunning EXCEPT !.pc = "raised"], lastSent |-> NoMail]
             mail == IF r.email /\ sent THEN email ELSE NoMail
         IN IF email = "" THEN [run |-> next, lastSent |-> NoMail]
            ELSE IF NeedsAdding(r.all_registered, email)
            THEN \* line 211 passes four arguments to format_to_auth0
                 IF ~format_to_auth0_accepts(4) THEN raised
                 ELSE IF r.email /\ ~sent /\ ~CatchesSendError THEN raised
                 ELSE [run |->
                         [next EXCEPT
                            !.all_new = Append(@, email),
                            !.all_registered[email] =
                               [in |-> TRUE, name |-> r.results[r.i][1],
                                password |->
                                   IF r.all_registered[email].in
                                   THEN r.all_registered[email].password
                                   ELSE "random",
                                emailed |-> IF r.email /\ sent THEN "true" ELSE "false"]],
                       lastSent |-> mail]
            ELSE IF ResendRequested(r.password_requests, email)
            THEN IF r.email /\ ~sent /\ ~CatchesSendError THEN raised
                 ELSE [run |->
                         [next EXCEPT
                            !.all_registered[email].emailed =
                               IF r.email /\ sent THEN "true" ELSE @],
                       lastSent |-> mail]
            ELSE [run |-> next, lastSent |-> NoMail]

RunIter ==
    /\ run.pc = "loop"
    /\ \E sent \in send_register_email :
          /\ run' = loop_turn(run, sent).run
          /\ lastSent' = loop_turn(run, sent).lastSent
          /\ mailed' =
                [mailed EXCEPT
                   !.now = IF lastSent' = NoMail THEN @ ELSE @ \cup {lastSent'},
                   !.failed = IF ~sent /\ ReachesSend(run)
                              THEN @ \cup {run.results[run.i][2]} ELSE @]
    /\ UNCHANGED <<registered, statsFile, procs>>
    /\ UNCHANGED <<streamVars, sheetVars, mailVars, schedVars, textVars>>

\* get_all after its loop (lines 233-259): the statistics file counts the new
\* registrations; registered.json is written only when there are new ones
\* and they are transmitted to Auth0.
stats_after(r, stats) ==
    [exists |-> TRUE,
     new_since_last |->
        IF stats.exists THEN stats.new_since_last + Len(r.all_new)
        ELSE Len(r.all_new)]

registered_after(r, file) ==
    IF Len(r.all_new) > 0 /\ r.transmit_to_auth0 THEN r.all_registered ELSE file

RunFinish ==
    /\ run.pc = "finish"
    /\ statsFile' = stats_after(run, statsFile)
    /\ registered' = registered_after(run, registered)
    /\ run' = [NotRunning EXCEPT !.pc = "done"]
    /\ UNCHANGED <<lastSent, mailed, procs>>
    /\ UNCHANGED <<streamVars, sheetVars, mailVars, schedVars, textVars>>

InitReg ==
    /\ registered \in [Emails -> Records \cup {NoRecord}]
    /\ statsFile \in {[exists |-> FALSE, new_since_last |-> 0],
                      [exists |-> TRUE, new_since_last |-> 0]}
    /\ run = NotRunning
    /\ lastSent = NoMail
    /\ mailed = [earlier |-> {}, now |-> {}, failed |-> {}]
    /\ procs = <<>>

InitRegSpec == IdleStream /\ IdleSheet /\ InitReg /\ IdleMail /\ IdleSched /\ IdleText

NextReg == RunStart \/ RunIter \/ RunFinish

SpecReg == InitRegSpec /\ [][NextReg]_vars

(***************************************************************************)
(* Two runs of get_all at once. Nothing in get_all locks registered.json   *)
(* or registration_stats.json: each run loads the files (line 181), keeps  *)
(* its own locals and writes the files at its end (lines 246-258).         *)
(***************************************************************************)

Procs == {1, 2}

IdleProc ==
    [run |-> NotRunning, loaded |-> [e \in Emails |-> NoRecord], mails |-> FALSE,
     overlapped |-> FALSE, sent |-> {}, failed |-> FALSE]

\* The run has loaded registered.json and not yet come to its end.
InFlight(p) == procs[p].run.pc \in {"loop", "finish"}

\* The attendee lists of the two runs: nobody, or one attendee.
OverlapResults == {<<>>} \cup {<< <<AttendeeName, e>> >> : e \in Emails}

\* Run p begins (lines 178-190); it overlaps a run that is in flight.
ProcStart(p) ==
    /\ procs[p].run.pc = "idle"
    /\ \E results \in OverlapResults,
          password_requests \in {{}, {"e1"}},
          transmit_to_auth0 \in BOOLEAN, email \in BOOLEAN :
          procs' =
             [q \in Procs |->
                IF q = p
                THEN [run |-> locals_at_loop(results, password_requests,
                                             load_already_registered,
                                             transmit_to_auth0, email, 0 - 1),
                      loaded |-> WithEmailedDefault(load_already_registered),
                      mails |-> email,
                      overlapped |-> \E o \in Procs \ {p} : InFlight(o),
                      sent |-> {}, failed |-> FALSE]
                ELSE [procs[q] EXCEPT !.overlapped = @ \/ InFlight(q)]]
    /\ UNCHANGED <<registered, statsFile, run, lastSent, mailed>>
    /\ UNCHANGED <<streamVars, sheetVars, mailVars, schedVars, textVars>>

\* One turn of the loop of run p (lines 191-231).
ProcIter(p) ==
    /\ procs[p].run.pc = "loop"
    /\ \E sent \in send_register_email :
          LET t == loop_turn(procs[p].run, sent)
          IN procs' =
                [procs EXCEPT
                   ![p].run = t.run,
                   ![p].sent = IF t.lastSent = NoMail THEN @ ELSE @ \cup {t.lastSent},
                   ![p].failed = @ \/ (~sent /\ ReachesSend(procs[p].run))]
    /\ UNCHANGED <<registered, statsFile, run, lastSent, mailed>>
    /\ UNCHANGED <<streamVars, sheetVars, mailVars, schedVars, textVars>>

\* Run p writes the files and returns (lines 233-259).
ProcFinish(p) ==
    /\ procs[p].run.pc = "finish"
    /\ statsFile' = stats_after(procs[p].run, statsFile)
    /\ registered' = registered_after(procs[p].run, registered)
    /\ procs' = [procs EXCEPT ![p].run = [NotRunning EXCEPT !.pc = "done"]]
    /\ UNCHANGED <<run, lastSent, mailed>>
    /\ UNCHANGED <<streamVars, sheetVars, mailVars, schedVars, textVars>>

InitRegTwo ==
    /\ IdleStream /\ IdleSheet /\ IdleMail /\ IdleSched /\ IdleText
    /\ registered \in [Emails -> Records \cup {NoRecord}]
    /\ statsFile = [exists |-> FALSE, new_since_last |-> 0]
    /\ run = NotRunning
    /\ lastSent = NoMail
    /\ mailed = [earlier |-> {}, now |-> {}, failed |-> {}]
    /\ procs = [p \in Procs |-> IdleProc]

NextRegTwo ==
    \/ \E p \in Procs : ProcStart(p)
    \/ \E p \in Procs : ProcIter(p)
    \/ \E p \in Procs : ProcFinish(p)

SpecRegTwo == InitRegTwo /\ [][NextRegTwo]_vars

(***************************************************************************)
(* Claims about get_all, checked under SpecReg.                            *)
(***************************************************************************)

\* C9: across any sequence of runs of get_all, a registrant who was sent the
\* registration mail by an earlier run, or whose record in registered.json
\* says "emailed": true, is sent the mail by a run only if the email is in a
\* password request file.
C9_EmailedNotSentAgain ==
    \A e \in Emails :
        /\ lastSent = e
        /\ (e \in mailed.earlier \/ (registered[e].in /\ registered[e].emailed = "true"))
        => e \in run.password_requests

\* A run met, among the attendees, a registrant mailed by an earlier run and
\* without a password request now, and went on without sending.
C9_Witness ==
    /\ run.pc = "loop" /\ run.i > 1 /\ run.email
    /\ LET e == run.results[run.i - 1][2]
       IN /\ e \in Emails
          /\ e \in mailed.earlier
          /\ registered[e].in /\ registered[e].emailed = "true"
          /\ e \notin run.password_requests
          /\ run.password_requests # {}
          /\ lastSent = NoMail

\* The send for e raised in this step.
SendFailedFor(e) == e \in mailed'.failed /\ e \notin mailed.failed

\* C12: when sending a registrant's email raises, the run goes on with the
\* next entry of results, no mail is recorded as sent, the files are
\* untouched and the registrant's "emailed" flag is not set by this turn: it
\* stays as it was, or false for a registrant added in this turn.
C12_FailedSendIsSwallowed ==
    [][\A e \in Emails :
          SendFailedFor(e) =>
              /\ run'.pc = "loop" /\ run'.i = run.i + 1
              /\ lastSent' = NoMail
              /\ registered' = registered /\ statsFile' = statsFile
              /\ run'.all_registered[e].emailed =
                    IF NeedsAdding(run.all_registered, e) THEN "false"
                    ELSE run.all_registered[e].emailed]_vars

\* A send raised in the current run and the run has gone on to a later entry.
C12_Witness ==
    /\ run.pc = "loop" /\ run.i = 3
    /\ mailed.failed = {run.results[1][2]}
    /\ run.results[2][2] \in mailed.now

\* C12 as stated: the flag of a registrant whose send raised is false.
C12_FailedSendLeavesFlagFalse ==
    \A e \in Emails :
        run.pc = "loop" /\ e \in mailed.failed
            => run.all_registered[e].emailed = "false"

\* The run is about to handle the entry of results for email e.
TurnOn(e) ==
    /\ run.pc = "loop" /\ run.i <= Len(run.results)
    /\ ~(run.max_new > 0 /\ Len(run.all_new) >= run.max_new)
    /\ run.results[run.i][2] = e

\* C25 (as claimed): get_all never changes the password of a registered
\* email: the turn of the loop for an email that is registered and not yet
\* emailed makes an import entry for it and goes on to the mail with the
\* stored password, and a fresh password is made only for an email that is
\* not registered.
C25_StoredPasswordIsReused ==
    [][\A e \in Emails :
          TurnOn(e) /\ run.all_registered[e].in
                    /\ run.all_registered[e].emailed # "true" =>
              /\ run'.pc = "loop"
              /\ run'.all_new = Append(run.all_new, e)
              /\ run'.all_registered[e].password = run.all_registered[e].password]_vars

\* Both runs have come to their end, by returning or by an exception.
BothEnded == \A p \in Procs : procs[p].run.pc \in {"done", "raised"}

\* The two runs overlapped, both with session.email set, both loaded e as
\* registered and not yet emailed, and no send of theirs raised.
RacedOn(e) ==
    \A p \in Procs :
        /\ procs[p].overlapped /\ procs[p].mails /\ ~procs[p].failed
        /\ procs[p].loaded[e].in /\ procs[p].loaded[e].emailed = "false"

\* C24 (as claimed, as the final result of the two runs): registered.json is
\* not locked, and when two runs of get_all overlap, each having loaded the
\* file before the other wrote it, both send the registration email to a
\* registrant both loaded as not yet emailed.
C24_OverlappingRunsBothSend ==
    \A e \in Emails :
        BothEnded /\ RacedOn(e) => \A p \in Procs : e \in procs[p].sent

(***************************************************************************)
(* Part 4: email_upload_request.py, the command line and                   *)
(* send_emails_to_authors.                                                 *)
(***************************************************************************)

\* How many papers the papers database holds at most.
MaxPapers == 2

Unbound == "<unbound>"

PaperUids == {"u1", "u2"}

\* The event prefixes of the model: one of the full/short papers group, one
\* of the late workshop group, one that no group of line 20-27 lists.
EventPrefixes == {"v-full", "w-visxai", "x-other"}

\* The values given to --email_template; argparse accepts any string.
EmailTemplates == {"upload_request", "missing_preview", "presentation_tips", "none-such"}

\* Lines 19-45: the template chosen, or Unbound when no branch assigns one.
SelectTemplate(email_template, event_prefix) ==
    CASE email_template = "upload_request" ->
           (CASE event_prefix \in {"a-vast-challenge", "a-scivis-contest",
                                   "w-mercado", "w-visxai"} ->
                   "upload_request_associated_event_workshop_late"
              [] event_prefix \in {"a-ldav", "a-vizsec", "a-vds", "a-visap",
                                   "w-vis4dh", "w-topoinvis", "w-energyvis",
                                   "w-vis4good", "w-eduvis", "w-visxvision",
                                   "w-vahc", "w-visxprov", "a-biomedchallenge",
                                   "w-altvis", "w-viscomm", "w-cityvis",
                                   "w-nlviz", "s-vds", "w-vis4pandemres"} ->
                   "upload_request_associated_event_workshop"
              [] event_prefix \in {"v-siggraph", "v-ismar", "v-vr"} ->
                   "upload_request_vr_ismar"
              [] event_prefix \in {"v-short", "v-full", "v-cga"} ->
                   "upload_request_full_short"
              [] OTHER -> Unbound)
      [] email_template = "missing_preview" ->
           (IF event_prefix \in {"v-cga", "v-tvcg"}
            THEN "missing_preview_tvcg_cga" ELSE "missing_preview")
      [] email_template = "missing_urgent" ->
           (IF event_prefix \in {"v-cga", "v-tvcg", "v-short", "v-full"}
            THEN "missing_urgent" ELSE "missing_urgent_workshop")
      [] email_template \in {"presentation_tips", "copyright_delay",
                             "missing_video", "reminder_survey"} -> email_template
      [] OTHER -> Unbound

RECURSIVE Filter(_, _, _)
Filter(db, field, value) ==
    IF db = <<>> THEN <<>>
    ELSE (IF Head(db)[field] = value THEN <<Head(db)>> ELSE <<>>)
         \o Filter(Tail(db), field, value)

\* Lines 47-51: the papers of the uid when one is given, else those of the
\* event prefix; with neither, papers is never assigned.
SelectPapers(db, event_prefix, uid) ==
    IF uid # NoneVal THEN [bound |-> TRUE, papers |-> Filter(db, "UID", uid)]
    ELSE IF event_prefix # NoneVal
    THEN [bound |-> TRUE, papers |-> Filter(db, "EventPrefix", event_prefix)]
    ELSE [bound |-> FALSE, papers |-> <<>>]

\* send_emails_to_authors (lines 10-62): the mails sent and how the call
\* ends. Reading the unassigned papers (line 53) or template (line 58)
\* raises UnboundLocalError before any mail.
send_emails_to_authors(db, event_prefix, email_template, uid) ==
    LET template == SelectTemplate(email_template, event_prefix)
        sel == SelectPapers(db, event_prefix, uid)
    IN IF ~sel.bound THEN [mails |-> <<>>, outcome |-> "UnboundLocalError"]
       ELSE IF sel.papers # <<>> /\ template = Unbound
       THEN [mails |-> <<>>, outcome |-> "UnboundLocalError"]
       ELSE [mails |-> [i \in 1..Len(sel.papers) |->
                          [UID |-> sel.papers[i].UID,
                           EventPrefix |-> sel.papers[i].EventPrefix,
                           template |-> template]],
             outcome |-> "sent"]

\* Mutant of line 93: --send alone is enough.
SendsWithoutPrefix(a) == TRUE

\* Line 93: emails are sent only if an event prefix is given.
SendsOnlyWithPrefix(a) == a.event_prefix # NoneVal

\* The script's main part (lines 83-95) on one command line.
main(a) ==
    IF a.verify THEN [mails |-> <<>>, outcome |-> "verified"]
    ELSE IF a.send
    THEN IF SendsOnlyWithPrefix(a)
         THEN send_emails_to_authors(papersDb, a.event_prefix, a.email_template, a.uid)
         ELSE [mails |-> <<>>, outcome |-> "nothing"]
    ELSE [mails |-> <<>>, outcome |-> "nothing"]

CommandLines ==
    [verify : BOOLEAN, send : BOOLEAN,
     event_prefix : EventPrefixes \cup {NoneVal},
     uid : {"u1", NoneVal},
     email_template : EmailTemplates]

Main(a) ==
    /\ args' = a
    /\ mails' = main(a).mails
    /\ outcome' = main(a).outcome
    /\ UNCHANGED papersDb
    /\ UNCHANGED <<streamVars, sheetVars, regVars, schedVars, textVars>>

NoArgs ==
    [verify |-> FALSE, send |-> FALSE, event_prefix |-> NoneVal, uid |-> NoneVal,
     email_template |-> "upload_request"]

InitMail ==
    /\ papersDb \in SeqsUpTo([UID : PaperUids, EventPrefix : {"v-full", "x-other"}],
                              MaxPapers)
    /\ args = NoArgs
    /\ mails = <<>>
    /\ outcome = NoRun

InitMailSpec == IdleStream /\ IdleSheet /\ IdleReg /\ InitMail /\ IdleSched /\ IdleText

NextMail == \E a \in CommandLines : Main(a)

SpecMail == InitMailSpec /\ [][NextMail]_vars

(***************************************************************************)
(* Claims about email_upload_request.py, checked under SpecMail.           *)
(***************************************************************************)

\* C10: an invocation without --send sends no email, and one with --send
\* and without --event_prefix sends none either, whether or not --uid is
\* given.
C10_NoPrefixNoMail ==
    outcome # NoRun /\ (~args.send \/ args.event_prefix = NoneVal) => mails = <<>>

C10_Witness ==
    /\ outcome = "nothing" /\ mails = <<>>
    /\ args.send /\ ~args.verify
    /\ args.event_prefix = NoneVal
    /\ args.uid = "u1"
    /\ args.email_template = "presentation_tips"
    /\ \E i \in 1..Len(papersDb) : papersDb[i].UID = "u1"

\* The last invocation called send_emails_to_authors (lines 91-95).
CalledSend == outcome # NoRun /\ ~args.verify /\ args.send /\ args.event_prefix # NoneVal

\* C28 (as claimed): template selection is total: for every --email_template
\* value and every event prefix a template is assigned before the send loop,
\* so no call of send_emails_to_authors ends in the UnboundLocalError of
\* reading an unassigned template.
C28_TemplateSelectionIsTotal ==
    CalledSend => outcome = "sent"

\* C29 (as claimed): every paper emailed has the "Event Prefix" given on the
\* command line, also when --uid is given, and the selected papers are
\* emailed once each in database order.
C29_MailedPapersAreOfTheEvent ==
    CalledSend =>
        /\ \A i \in 1..Len(mails) : mails[i].EventPrefix = args.event_prefix
        /\ \E pos \in [1..Len(mails) -> 1..Len(papersDb)] :
              /\ \A i \in 1..Len(mails) : mails[i].UID = papersDb[pos[i]].UID
              /\ \A i, j \in 1..Len(mails) : i < j => pos[i] < pos[j]

(***************************************************************************)
(* Part 5: scheduling a session, Session.create_virtual_session,           *)
(* Session.schedule_youtube_broadcast and Session.schedule_zoom.           *)
(***************************************************************************)

\* How many time slots the session has at most.
MaxSlots == 2

\* How many meetings, and how many broadcasts, the providers create at most.
MaxCreated == 2

\* The "Time Slot Type" cells of the model.
SlotTypes == {"Talk", "Zoom Only"}

\* The "Time Slot Type" cells of the first time slot of the sessions scheduled.
SchedSlotTypes == SlotTypes \cup {"Discord Only"}

\* The computers a session is given to; "Z" has no row in the computers table.
ComputerIds == {"A", "Z"}

\* The status codes Zoom answers the livestream PATCH with.
PatchStatuses == {204, 200, 404}

\* What generate_password (lines 59-61) returns: one random password.
Passwords == {"pw-x"}

\* Where schedule_youtube_broadcast may raise: nowhere, in session_time or
\* liveBroadcasts.insert (lines 537-570), or in videos.update or
\* thumbnails.set once the broadcast exists (lines 574-591).
YoutubeFaults == {"none", "insert", "update"}

\* Where schedule_zoom may raise before the meeting exists: nowhere, or in
\* the users request or session_time (lines 435-452).
ZoomFaults == {"none", "before post"}

FreshCells(type) ==
    [Computer |-> NoneVal, TimeSlotType |-> type,
     ZoomURL |-> NoneVal, ZoomMeetingID |-> NoneVal, ZoomPassword |-> NoneVal,
     YoutubeBroadcast |-> NoneVal, YoutubeControlRoom |-> NoneVal,
     YoutubeChatID |-> NoneVal]

\* The id the provider gives to the next meeting or broadcast it creates.
NewId(created) == Cardinality(created) + 1

\* zoom_info["join_url"] of the meeting created.
join_url(id) == "https://zoom.us/j/" \o ToString(id)

\* The three YouTube cells written for a broadcast (lines 594-597).
ControlRoom(id) == "https://studio.youtube.com/video/yt" \o ToString(id) \o "/livestreaming"

BroadcastUrl(id) == "https://youtu.be/yt" \o ToString(id)

liveChatId(id) == "chat-yt" \o ToString(id)

\* Mutant of line 505: only an error status stops the process.
ExitsOnErrorStatus(status_code) == status_code >= 400

\* Line 505.
ExitsOnPatchStatus(status_code) == status_code # 204

\* schedule_youtube_broadcast (lines 534-597).
schedule_youtube_broadcast(c, yb, yt) ==
    IF yt = "insert" THEN [cells |-> c, yb |-> yb, outcome |-> "raised"]
    ELSE LET id == NewId(yb)
         IN IF yt = "update"
            THEN [cells |-> c, yb |-> yb \cup {id}, outcome |-> "raised"]
            ELSE [cells |-> [t \in DOMAIN c |->
                               [c[t] EXCEPT !.YoutubeControlRoom = ControlRoom(id),
                                            !.YoutubeBroadcast = BroadcastUrl(id),
                                            !.YoutubeChatID = liveChatId(id)]],
                  yb |-> yb \cup {id}, outcome |-> "returned"]

\* Mutant of lines 503-513: the cells are filled in before the PATCH answer
\* is looked at.
schedule_zoom_writes_first(c, zm, zf, status_code, password) ==
    IF zf = "before post" THEN [cells |-> c, zm |-> zm, outcome |-> "raised"]
    ELSE LET id == NewId(zm)
         IN [cells |-> [t \in DOMAIN c |->
                          [c[t] EXCEPT !.ZoomURL = join_url(id),
                                       !.ZoomMeetingID = ToString(id),
                                       !.ZoomPassword = password]],
             zm |-> zm \cup {id},
             outcome |-> IF c[1].Computer \notin DOMAIN computers THEN "raised"
                         ELSE IF ExitsOnPatchStatus(status_code) THEN "exit"
                         ELSE "returned"]

\* schedule_zoom (lines 430-513): the meeting is created (line 494), the
\* stream key of the computer of slot 0 is looked up (line 500, IndexError
\* for a computer without a row), the livestream is attached (line 503).
schedule_zoom(c, zm, zf, status_code, password) ==
    IF zf = "before post" THEN [cells |-> c, zm |-> zm, outcome |-> "raised"]
    ELSE LET id == NewId(zm)
         IN IF c[1].Computer \notin DOMAIN computers
            THEN [cells |-> c, zm |-> zm \cup {id}, outcome |-> "raised"]
            ELSE IF ExitsOnPatchStatus(status_code)
            THEN [cells |-> c, zm |-> zm \cup {id}, outcome |-> "exit"]
            ELSE [cells |-> [t \in DOMAIN c |->
                               [c[t] EXCEPT !.ZoomURL = join_url(id),
                                            !.ZoomMeetingID = ToString(id),
                                            !.ZoomPassword = password]],
                  zm |-> zm \cup {id}, outcome |-> "returned"]

\* Mutant of line 423: only the first time slot gets the computer.
ComputerSlotZero(c) == {1}

\* Line 423: the time slots the computer is written to.
ComputerSlots(c) == DOMAIN c

\* create_virtual_session (lines 422-427).
create_virtual_session(c, zm, yb, computer_id, yt, zf, status_code, password) ==
    LET c1 == [t \in DOMAIN c |->
                 IF t \in ComputerSlots(c) THEN [c[t] EXCEPT !.Computer = computer_id]
                 ELSE c[t]]
        y == IF c1[1].TimeSlotType # "Zoom Only"
             THEN schedule_youtube_broadcast(c1, yb, yt)
             ELSE [cells |-> c1, yb |-> yb, outcome |-> "returned"]
        z == schedule_zoom(y.cells, zm, zf, status_code, password)
    IN IF y.outcome # "returned"
       THEN [cells |-> y.cells, zm |-> zm, yb |-> y.yb, outcome |-> "raised"]
       ELSE [cells |-> z.cells, zm |-> z.zm, yb |-> y.yb, outcome |-> z.outcome]

\* After sys.exit(1) the process is gone: the actions below are not enabled.
\* The exit status of the process, 0 while it goes on.
ExitStatus(outcome_) == IF outcome_ = "exit" THEN 1 ELSE 0

NoSchedCall ==
    [op |-> "none", computer |-> NoneVal, yt |-> "none", zf |-> "none",
     status_code |-> 0, password |-> NoneVal, outcome |-> "none", exit |-> 0,
     before |-> <<>>, zoomBefore |-> {}, ytBefore |-> {}]

CreateVirtualSession(computer_id, yt, zf, status_code, password) ==
    /\ schedCall.outcome # "exit"
    /\ Cardinality(zoomMeetings) < MaxCreated
    /\ Cardinality(ytBroadcasts) < MaxCreated
    /\ LET r == create_virtual_session(slotCells, zoomMeetings, ytBroadcasts,
                                       computer_id, yt, zf, status_code, password)
       IN /\ slotCells' = r.cells
          /\ zoomMeetings' = r.zm
          /\ ytBroadcasts' = r.yb
          /\ schedCall' = [op |-> "create_virtual_session", computer |-> computer_id,
                           yt |-> yt, zf |-> zf, status_code |-> status_code,
                           password |-> password, outcome |-> r.outcome,
                           exit |-> ExitStatus(r.outcome), before |-> slotCells,
                           zoomBefore |-> zoomMeetings, ytBefore |-> ytBroadcasts]
    /\ UNCHANGED <<streamVars, sheetVars, regVars, mailVars, textVars>>

ScheduleZoom(zf, status_code, password) ==
    /\ schedCall.outcome # "exit"
    /\ Cardinality(zoomMeetings) < MaxCreated
    /\ LET r == schedule_zoom(slotCells, zoomMeetings, zf, status_code, password)
       IN /\ slotCells' = r.cells
          /\ zoomMeetings' = r.zm
          /\ schedCall' = [op |-> "schedule_zoom", computer |-> slotCells[1].Computer,
                           yt |-> "none", zf |-> zf, status_code |-> status_code,
                           password |-> password, outcome |-> r.outcome,
                           exit |-> ExitStatus(r.outcome), before |-> slotCells,
                           zoomBefore |-> zoomMeetings, ytBefore |-> ytBroadcasts]
    /\ UNCHANGED ytBroadcasts
    /\ UNCHANGED <<streamVars, sheetVars, regVars, mailVars, textVars>>

InitSched ==
    /\ \E n \in 1..MaxSlots :
          \E types \in [1..n -> SchedSlotTypes] :
             /\ \A t \in 2..n : types[t] \in SlotTypes
             /\ slotCells = [t \in 1..n |-> FreshCells(types[t])]
    /\ zoomMeetings = {}
    /\ ytBroadcasts = {}
    /\ schedCall = NoSchedCall

InitSchedSpec == IdleStream /\ IdleSheet /\ IdleReg /\ IdleMail /\ InitSched /\ IdleText

NextSched ==
    \/ \E computer_id \in ComputerIds, yt \in YoutubeFaults, zf \in ZoomFaults,
          status_code \in PatchStatuses, password \in Passwords :
          CreateVirtualSession(computer_id, yt, zf, status_code, password)
    \/ \E zf \in ZoomFaults, status_code \in PatchStatuses, password \in Passwords :
          ScheduleZoom(zf, status_code, password)

SpecSched == InitSchedSpec /\ [][NextSched]_vars

(***************************************************************************)
(* Claims about scheduling, checked under SpecSched.                       *)
(***************************************************************************)

ZoomCells(c) ==
    [t \in DOMAIN c |-> <<c[t].ZoomURL, c[t].ZoomMeetingID, c[t].ZoomPassword>>]

\* The call got as far as the livestream PATCH of line 503.
ReachedPatch ==
    /\ schedCall.op # "none"
    /\ zoomMeetings # schedCall.zoomBefore
    /\ schedCall.outcome # "raised"

\* C11: when the livestream PATCH of schedule_zoom is answered with a status
\* other than 204, the process ends with exit status 1 and the Zoom cells of
\* every time slot are as they were before the call.
C11_PatchFailureExitsBeforeWriting ==
    ReachedPatch /\ schedCall.status_code # 204
        => /\ schedCall.exit = 1
           /\ ZoomCells(slotCells) = ZoomCells(schedCall.before)

C11_Witness ==
    /\ schedCall.op = "schedule_zoom" /\ ReachedPatch
    /\ schedCall.status_code = 200
    /\ schedCall.exit = 1
    /\ Len(slotCells) = 2
    /\ \A t \in DOMAIN slotCells : slotCells[t].ZoomMeetingID = NoneVal

YoutubeCells(c) ==
    [t \in DOMAIN c |->
       <<c[t].YoutubeBroadcast, c[t].YoutubeControlRoom, c[t].YoutubeChatID>>]

\* The meeting and the broadcast the last call created.
NewMeeting == NewId(schedCall.zoomBefore)

NewBroadcast == NewId(schedCall.ytBefore)

CreatedNormally ==
    schedCall.op = "create_virtual_session" /\ schedCall.outcome = "returned"

\* C19: after create_virtual_session returned normally, every time slot holds
\* the given computer and the URL, id and password of the one meeting created,
\* and, unless slot 0 is "Zoom Only", the three cells of the one broadcast
\* created.
C19_AllSlotsHoldSameValues ==
    CreatedNormally =>
        /\ zoomMeetings = schedCall.zoomBefore \cup {NewMeeting}
        /\ \A t \in DOMAIN slotCells :
              /\ slotCells[t].Computer = schedCall.computer
              /\ ZoomCells(slotCells)[t] =
                    <<join_url(NewMeeting), ToString(NewMeeting), schedCall.password>>
        /\ schedCall.before[1].TimeSlotType # "Zoom Only" =>
              /\ ytBroadcasts = schedCall.ytBefore \cup {NewBroadcast}
              /\ \A t \in DOMAIN slotCells :
                    YoutubeCells(slotCells)[t] =
                      <<BroadcastUrl(NewBroadcast), ControlRoom(NewBroadcast),
                        liveChatId(NewBroadcast)>>

C19_Witness ==
    /\ CreatedNormally
    /\ Len(slotCells) = 2
    /\ schedCall.before[1].TimeSlotType = "Talk"
    /\ schedCall.before[1].ZoomMeetingID # NoneVal
    /\ slotCells[2].Computer = "A"
    /\ slotCells[2].ZoomMeetingID = ToString(NewMeeting)
    /\ slotCells[2].YoutubeBroadcast = BroadcastUrl(NewBroadcast)

\* YouTube scheduling succeeded and the livestream PATCH then failed.
PatchFailedAfterYoutube ==
    /\ schedCall.op = "create_virtual_session"
    /\ schedCall.before[1].TimeSlotType # "Zoom Only"
    /\ schedCall.yt = "none"
    /\ ReachedPatch /\ schedCall.status_code # 204

\* C20: when create_virtual_session scheduled the broadcast and the Zoom
\* livestream PATCH then failed, the rows hold the new computer and the new
\* broadcast's cells, the Zoom cells are as before the call and none records
\* the meeting that was created at Zoom, and the broadcast stays created.
C20_PartialFailureLeavesDivergence ==
    PatchFailedAfterYoutube =>
        /\ \A t \in DOMAIN slotCells :
              /\ slotCells[t].Computer = schedCall.computer
              /\ slotCells[t].YoutubeBroadcast = BroadcastUrl(NewBroadcast)
              /\ slotCells[t].ZoomMeetingID # ToString(NewMeeting)
        /\ ZoomCells(slotCells) = ZoomCells(schedCall.before)
        /\ NewMeeting \in zoomMeetings /\ NewMeeting \notin schedCall.zoomBefore
        /\ NewBroadcast \in ytBroadcasts

C20_Witness ==
    /\ PatchFailedAfterYoutube
    /\ schedCall.exit = 1
    /\ Len(slotCells) = 2
    /\ \A t \in DOMAIN slotCells :
          /\ schedCall.before[t].Computer = NoneVal
          /\ slotCells[t].Computer = "A"
          /\ slotCells[t].YoutubeBroadcast # NoneVal
          /\ slotCells[t].ZoomURL = NoneVal
          /\ slotCells[t].ZoomMeetingID = NoneVal
          /\ slotCells[t].ZoomPassword = NoneVal
    /\ zoomMeetings = {1}

\* C27 (as claimed): creation and streaming agree: create_virtual_session
\* creates no YouTube broadcast for a session whose first time slot is
\* "Zoom Only" or "Discord Only", the types start_streaming always skips.
C27_NoBroadcastForSkippedTypes ==
    schedCall.op = "create_virtual_session"
        /\ IsZoomOrDiscordOnly(schedCall.before[1].TimeSlotType)
        => ytBroadcasts = schedCall.ytBefore

(***************************************************************************)
(* Part 6: the text helpers of schedule.py. Texts are strings; a           *)
(* character of a text is its substring of length one.                     *)
(***************************************************************************)

\* How far below and above a length limit the lengths of the inputs go.
Over == 2

YoutubeTitleLimit == 100

YoutubeTitleCut == 99

YoutubeDescriptionLimit == 5000

YoutubeDescriptionCut == 4999

CharAt(s, i) == SubSeq(s, i, i)

\* s[0:n] of Python.
Slice(s, n) == SubSeq(s, 1, IF n < Len(s) THEN n ELSE Len(s))

\* str.replace(old, new) for a one-character old.
RECURSIVE replace(_, _, _)
replace(s, old, new) ==
    IF Len(s) = 0 THEN s
    ELSE IF Len(s) = 1 THEN (IF s = old THEN new ELSE s)
    ELSE LET h == Len(s) \div 2
         IN replace(SubSeq(s, 1, h), old, new) \o replace(SubSeq(s, h + 1, Len(s)), old, new)

\* Mutant of lines 70-71: the cut starts one character too late.
make_youtube_title_cut_late(title) ==
    LET t == replace(replace(title, "<", " "), ">", " ")
    IN IF Len(t) > YoutubeTitleLimit + 1 THEN Slice(t, YoutubeTitleCut) ELSE t

\* make_youtube_title (lines 67-72).
make_youtube_title(title) ==
    LET t == replace(replace(title, "<", " "), ">", " ")
    IN IF Len(t) > YoutubeTitleLimit THEN Slice(t, YoutubeTitleCut) ELSE t

\* make_youtube_description (lines 74-79).
make_youtube_description(description) ==
    LET d == replace(replace(description, "<", " "), ">", " ")
    IN IF Len(d) > YoutubeDescriptionLimit THEN Slice(d, YoutubeDescriptionCut) ELSE d

\* The text of n characters that repeats unit.
RECURSIVE RepeatTo(_, _)
RepeatTo(unit, n) ==
    IF n <= Len(unit) THEN SubSeq(unit, 1, n) ELSE RepeatTo(unit \o unit, n)

TextUnits == {"a", "<", "b>", "<c ", ">d<e", "f g<>"}

Around(limit) == {n \in (limit - Over)..(limit + Over) : n >= 0}

TextLengths ==
    (0..Over) \cup Around(YoutubeTitleLimit) \cup Around(YoutubeDescriptionLimit)

Texts == {RepeatTo(unit, n) : unit \in TextUnits, n \in TextLengths}

NoText == [fn |-> "none", value |-> ""]

MakeYoutubeTitle ==
    /\ textOut' = [fn |-> "make_youtube_title", value |-> make_youtube_title(textIn)]
    /\ UNCHANGED textIn
    /\ UNCHANGED <<streamVars, sheetVars, regVars, mailVars, schedVars>>

MakeYoutubeDescription ==
    /\ textOut' = [fn |-> "make_youtube_description",
                   value |-> make_youtube_description(textIn)]
    /\ UNCHANGED textIn
    /\ UNCHANGED <<streamVars, sheetVars, regVars, mailVars, schedVars>>

InitYoutubeText ==
    /\ IdleStream /\ IdleSheet /\ IdleReg /\ IdleMail /\ IdleSched
    /\ textIn \in Texts
    /\ textOut = NoText

NextYoutubeText == MakeYoutubeTitle \/ MakeYoutubeDescription

SpecYoutubeText == InitYoutubeText /\ [][NextYoutubeText]_vars

\* strftime("%H") and strftime("%M"): two digits, zero-padded.
Pad2(n) == <<Digits[(n \div 10) + 1], Digits[(n % 10) + 1]>>

Unpadded(n) == IF n < 10 THEN <<Digits[n + 1]>> ELSE Pad2(n)

\* Mutant of line 51: the hours and minutes are not zero-padded.
format_time_slot_unpadded(start, end) ==
    Unpadded(start.hour) \o Unpadded(start.minute) \o <<"-">>
        \o Unpadded(end.hour) \o Unpadded(end.minute)

\* format_time_slot (lines 50-51).
format_time_slot(start, end) ==
    Pad2(start.hour) \o Pad2(start.minute) \o <<"-">>
        \o Pad2(end.hour) \o Pad2(end.minute)

\* The HHMM halves of the "Time Slot" cells tried: hours and minutes inside
\* and outside their ranges.
HalfSlots ==
    { <<a, b, c, d>> : a \in {"0", "1", "2"}, b \in {"0", "3", "9"},
                       c \in {"0", "5", "6"}, d \in {"0", "9"} }

TimeSlotTexts ==
    { h1 \o <<"-">> \o h2 : h1 \in HalfSlots, h2 \in HalfSlots } \cup TimeSlotCells

NoParse == [fn |-> "none", parsed |-> Raised(NoRun), value |-> <<>>]

ParseTimeSlot ==
    /\ textOut.fn = "none"
    /\ textOut' = [fn |-> "parse_time_slot",
                   parsed |-> parse_time_slot(textIn.time_slot, textIn.month, textIn.day),
                   value |-> <<>>]
    /\ UNCHANGED textIn
    /\ UNCHANGED <<streamVars, sheetVars, regVars, mailVars, schedVars>>

\* format_time_slot(*parse_time_slot(s, month, day)), when the parse returned.
FormatTimeSlot ==
    /\ textOut.fn = "parse_time_slot" /\ textOut.parsed.err = ""
    /\ textOut' = [fn |-> "format_time_slot", parsed |-> textOut.parsed,
                   value |-> format_time_slot(textOut.parsed.start, textOut.parsed.end)]
    /\ UNCHANGED textIn
    /\ UNCHANGED <<streamVars, sheetVars, regVars, mailVars, schedVars>>

InitTimeSlotText ==
    /\ IdleStream /\ IdleSheet /\ IdleReg /\ IdleMail /\ IdleSched
    /\ textIn \in { [time_slot |-> t, month |-> d[1], day |-> d[2]] :
                       t \in TimeSlotTexts, d \in ConferenceDays }
    /\ textOut = NoParse

NextTimeSlotText == ParseTimeSlot \/ FormatTimeSlot

SpecTimeSlotText == InitTimeSlotText /\ [][NextTimeSlotText]_vars

\* How long the session names tried character by character are at most.
MaxName == 3

ChannelNameLimit == 100

ChannelNameCut == 99

UpperCase == "ABCDEFGHIJKLMNOPQRSTUVWXYZ"

LowerCase == "abcdefghijklmnopqrstuvwxyz"

DigitChars == "0123456789"

CharsOf(s) == {CharAt(s, i) : i \in 1..Len(s)}

\* str.lower() on one character.
lower_char(c) ==
    IF c \in CharsOf(UpperCase)
    THEN CharAt(LowerCase, CHOOSE i \in 1..Len(UpperCase) : CharAt(UpperCase, i) = c)
    ELSE c

\* The halves of a text: the helpers below go through a text half by half.
LeftHalf(s) == SubSeq(s, 1, Len(s) \div 2)

RightHalf(s) == SubSeq(s, (Len(s) \div 2) + 1, Len(s))

RECURSIVE lower(_)
lower(s) ==
    IF Len(s) = 0 THEN s
    ELSE IF Len(s) = 1 THEN lower_char(s)
    ELSE lower(LeftHalf(s)) \o lower(RightHalf(s))

\* The character class [0-9A-Za-z\-] of line 640.
InNameClass(c) ==
    c \in CharsOf(DigitChars) \cup CharsOf(UpperCase) \cup CharsOf(LowerCase) \cup {"-"}

\* re.sub("[^0-9A-Za-z\-]+", "", s)
RECURSIVE sub_not_in_class(_)
sub_not_in_class(s) ==
    IF Len(s) = 0 THEN s
    ELSE IF Len(s) = 1 THEN (IF InNameClass(s) THEN s ELSE "")
    ELSE sub_not_in_class(LeftHalf(s)) \o sub_not_in_class(RightHalf(s))

\* re.sub("\-+", "-", s): a run of '-' that spans the two halves is one run.
RECURSIVE sub_dashes(_)
sub_dashes(s) ==
    IF Len(s) <= 1 THEN s
    ELSE LET l == sub_dashes(LeftHalf(s))
             r == sub_dashes(RightHalf(s))
         IN IF CharAt(l, Len(l)) = "-" /\ Head(r) = "-" THEN l \o Tail(r)
            ELSE l \o r

IsGeneral(e) == e.event_type = "Tutorial" \/ e.event = e.name

\* Mutant of line 640: the runs of '-' are collapsed before the other
\* characters are taken out.
chat_channel_name_collapse_first(e) ==
    IF IsGeneral(e) THEN "general"
    ELSE LET name == sub_not_in_class(sub_dashes(replace(lower(e.name), " ", "-")))
         IN IF Len(name) > ChannelNameLimit THEN Slice(name, ChannelNameCut) ELSE name

\* Session.chat_channel_name (lines 633-644) for a session whose slot 0 has
\* the cells e.event_type and e.event and whose name is e.name.
chat_channel_name(e) ==
    IF IsGeneral(e) THEN "general"
    ELSE LET name == sub_dashes(sub_not_in_class(replace(lower(e.name), " ", "-")))
         IN IF Len(name) > ChannelNameLimit THEN Slice(name, ChannelNameCut) ELSE name

NameChars == {"a", "B", "7", "-", " ", "&"}

RECURSIVE NamesUpTo(_)
NamesUpTo(n) ==
    IF n = 0 THEN {""}
    ELSE LET shorter == NamesUpTo(n - 1)
         IN shorter \cup {t \o c : t \in shorter, c \in NameChars}

LongNameUnits == {"a", "a-", "B ", "a&", "-&-a", "7 - "}

LongNames ==
    {RepeatTo(unit, n) :
        unit \in LongNameUnits,
        n \in Around(ChannelNameLimit) \cup Around(2 * ChannelNameLimit)}

SessionNames == NamesUpTo(MaxName) \cup LongNames

ChatChannelName ==
    /\ textOut' = [fn |-> "chat_channel_name", value |-> chat_channel_name(textIn)]
    /\ UNCHANGED textIn
    /\ UNCHANGED <<streamVars, sheetVars, regVars, mailVars, schedVars>>

InitChannelText ==
    /\ IdleStream /\ IdleSheet /\ IdleReg /\ IdleMail /\ IdleSched
    /\ \E ty \in {"Tutorial", "Paper Presentations"}, name \in SessionNames :
          \E ev \in {name, "VIS Full Papers"} :
             textIn = [event_type |-> ty, event |-> ev, name |-> name]
    /\ textOut = NoText

NextChannelText == ChatChannelName

SpecChannelText == InitChannelText /\ [][NextChannelText]_vars

CONFERENCE_NAME == "VIS Testing 2021"

\* The text of a cell given as its characters.
RECURSIVE JoinChars(_)
JoinChars(cell) == IF cell = <<>> THEN "" ELSE Head(cell) \o JoinChars(Tail(cell))

Pad2Text(n) == JoinChars(Pad2(n))

MonthAbbr ==
    <<"Jan", "Feb", "Mar", "Apr", "May", "Jun", "Jul", "Aug", "Sep", "Oct", "Nov", "Dec">>

\* The days before each month of CONFERENCE_YEAR, which is no leap year.
DaysBefore == <<0, 31, 59, 90, 120, 151, 181, 212, 243, 273, 304, 334>>

WeekdayAbbr == <<"Mon", "Tue", "Wed", "Thu", "Fri", "Sat", "Sun">>

\* strftime("%a"): 1 January 2021 was a Friday.
Weekday(time) == WeekdayAbbr[((4 + DaysBefore[time.month] + time.day - 1) % 7) + 1]

\* format_time (lines 53-54): strftime("%a %b %d %H:%M %Z") in conf_tz.
format_time(time) ==
    Weekday(time) \o " " \o MonthAbbr[time.month] \o " " \o Pad2Text(time.day) \o " "
        \o Pad2Text(time.hour) \o ":" \o Pad2Text(time.minute) \o " UTC-05:00"

\* time - timedelta(minutes=m), for a time that stays within its month.
MinusMinutes(time, m) ==
    LET total == 60 * time.hour + time.minute - m
    IN IF total >= 0
       THEN [time EXCEPT !.hour = total \div 60, !.minute = total % 60]
       ELSE [time EXCEPT !.day = @ - 1, !.hour = (total + 1440) \div 60,
                         !.minute = (total + 1440) % 60]

\* A session of the text helpers: its event, its name and the cells of its
\* time slots. Its session_time (lines 237-239):
TextSessionTime(e) ==
    StartToEnd(parse_time_slot(e.slots[1].TimeSlot, e.month, e.day),
               parse_time_slot(e.slots[Len(e.slots)].TimeSlot, e.month, e.day))

\* Mutant of lines 261-264: the setup time does not depend on the type.
setup_time_always(e) == 15

\* Session.setup_time (lines 261-264), in minutes.
setup_time(e) == IF e.slots[1].TimeSlotType # "Zoom Only" THEN 15 ELSE 0

\* Session.event_session_title (lines 241-244).
event_session_title(e) ==
    IF e.event = e.name THEN e.event ELSE e.event \o " - " \o e.name

\* A cell that is filled in.
Truthy(cell) == cell # NoneVal /\ cell # ""

\* str.replace("|", ", ") of lines 934-938.
Names(cell) == replace(cell, "|", ", ")

\* The lines of __str__ for the time slots from t on (lines 930-942).
RECURSIVE SlotLines(_, _)
SlotLines(e, t) ==
    IF t > Len(e.slots) THEN ""
    ELSE LET c == e.slots[t]
             time == JoinChars(c.TimeSlot)
         IN (IF Truthy(c.Contributors)
             THEN IF Truthy(c.Authors)
                  THEN "\n    " \o time \o ": " \o c.TimeSlotTitle \o " by "
                       \o Names(c.Authors) \o ".\n    Presented by " \o Names(c.Contributors)
                  ELSE "\n    " \o time \o ": " \o c.TimeSlotTitle \o " by "
                       \o Names(c.Contributors)
             ELSE "\n    " \o time \o ": " \o c.TimeSlotTitle)
            \o SlotLines(e, t + 1)

\* Session.__str__ (lines 915-943), when session_time returned.
str(e) ==
    LET c == e.slots[1]
        session_time_ == TextSessionTime(e)
    IN CONFERENCE_NAME \o ": " \o event_session_title(e)
       \o (IF Truthy(c.EventURL) THEN "\nEvent Webpage: " \o c.EventURL ELSE "")
       \o "\nSession Webpage: https://virtual.ieeevis.org/session_" \o c.SessionID \o ".html"
       \o "\nSession start: " \o format_time(session_time_.start)
       \o "\nSession end: " \o format_time(session_time_.end)
       \o (IF Truthy(c.YoutubeBroadcast) THEN "\nYoutube URL: " \o c.YoutubeBroadcast ELSE "")
       \o (IF Truthy(c.DiscordLink) THEN "\nDiscord Link: " \o c.DiscordLink ELSE "")
       \o (IF Truthy(c.Chairs) THEN "\nSession Chair(s): " \o Names(c.Chairs) ELSE "")
       \o SlotLines(e, 1)

NoCalendar == [begin |-> NoDate, end |-> NoDate, name |-> "", description |-> ""]

TextResult(fn, err, text, calendar) ==
    [fn |-> fn, err |-> err, text |-> text, calendar |-> calendar]

\* Session.make_youtube_description (lines 529-531).
session_youtube_description(e) ==
    IF TextSessionTime(e).err # ""
    THEN TextResult("make_youtube_description", TextSessionTime(e).err, "", NoCalendar)
    ELSE TextResult("make_youtube_description", "", make_youtube_description(str(e)),
                    NoCalendar)

\* Mutant of line 869: the Zoom lines are written whatever zoom_info is.
IncludesZoomAlways(zoom_info) == TRUE

\* Line 869, "if zoom_info:".
IncludesZoom(zoom_info) == zoom_info # NoneVal

\* Session.make_calendar (lines 857-877); concatenating a Zoom cell that is
\* None raises TypeError (lines 870-872).
make_calendar(e, with_setup_time, zoom_info) ==
    LET c == e.slots[1]
        session_time_ == TextSessionTime(e)
    IN IF session_time_.err # ""
       THEN TextResult("make_calendar", session_time_.err, "", NoCalendar)
       ELSE IF IncludesZoom(zoom_info)
               /\ NoneVal \in {c.ZoomURL, c.ZoomMeetingID, c.ZoomPassword}
       THEN TextResult("make_calendar", "TypeError", "", NoCalendar)
       ELSE TextResult("make_calendar", "", "",
              [begin |-> IF with_setup_time
                         THEN MinusMinutes(session_time_.start, setup_time(e))
                         ELSE session_time_.start,
               end |-> session_time_.end,
               name |-> event_session_title(e),
               description |->
                  (IF IncludesZoom(zoom_info)
                   THEN "Zoom URL: " \o c.ZoomURL
                        \o "\nZoom Meeting ID: " \o c.ZoomMeetingID
                        \o "\nZoom Password: " \o c.ZoomPassword \o "\n"
                   ELSE "")
                  \o str(e)])

\* The Zoom cells of a time slot: not scheduled, or one of two meetings.
ZoomTriples ==
    { [ZoomURL |-> NoneVal, ZoomMeetingID |-> NoneVal, ZoomPassword |-> NoneVal],
      [ZoomURL |-> "https://zoom.us/j/1", ZoomMeetingID |-> "1", ZoomPassword |-> "pw-x"],
      [ZoomURL |-> "https://zoom.us/j/2", ZoomMeetingID |-> "2", ZoomPassword |-> "pw-y"] }

\* The cells of a time slot the texts are made of, without its Zoom cells.
PublicCell(ty, people, links, yt) ==
    [TimeSlot |-> DefaultTimeSlot, TimeSlotTitle |-> "Talk <1>",
     TimeSlotType |-> ty, SessionID |-> "s1",
     Contributors |-> people[1], Authors |-> people[2],
     EventURL |-> links[1], DiscordLink |-> links[1], Chairs |-> links[2],
     YoutubeBroadcast |-> yt]

FirstSlotCells ==
    { PublicCell(ty, people, links, yt) :
        ty \in SlotTypes,
        people \in {<<NoneVal, NoneVal>>, <<"Ann|Bob", NoneVal>>, <<"Ann", "Cy|Di">>},
        links \in {<<NoneVal, NoneVal>>, <<"https://e.org/x", "Eve|Flo">>},
        yt \in {NoneVal, "https://youtu.be/yt1"} }

LaterSlotCells ==
    { PublicCell("Talk", people, <<NoneVal, NoneVal>>, NoneVal) :
        people \in {<<NoneVal, NoneVal>>, <<"Ann", "Cy|Di">>} }

PublicCells(n) ==
    { [t \in 1..n |-> IF t = 1 THEN first ELSE later[t]] :
        first \in FirstSlotCells, later \in [1..n -> LaterSlotCells] }

WithZoom(public, zoom) ==
    [TimeSlot |-> public.TimeSlot, TimeSlotTitle |-> public.TimeSlotTitle,
     TimeSlotType |-> public.TimeSlotType, SessionID |-> public.SessionID,
     Contributors |-> public.Contributors, Authors |-> public.Authors,
     EventURL |-> public.EventURL, DiscordLink |-> public.DiscordLink,
     Chairs |-> public.Chairs, YoutubeBroadcast |-> public.YoutubeBroadcast,
     ZoomURL |-> zoom.ZoomURL, ZoomMeetingID |-> zoom.ZoomMeetingID,
     ZoomPassword |-> zoom.ZoomPassword]

NoTextResult == TextResult("none", "", "", NoCalendar)

Str ==
    /\ textOut' = IF TextSessionTime(textIn).err # ""
                  THEN TextResult("str", TextSessionTime(textIn).err, "", NoCalendar)
                  ELSE TextResult("str", "", str(textIn), NoCalendar)
    /\ UNCHANGED textIn
    /\ UNCHANGED <<streamVars, sheetVars, regVars, mailVars, schedVars>>

SessionYoutubeDescription ==
    /\ textOut' = session_youtube_description(textIn)
    /\ UNCHANGED textIn
    /\ UNCHANGED <<streamVars, sheetVars, regVars, mailVars, schedVars>>

MakeCalendar(with_setup_time, zoom_info) ==
    /\ textOut' = [make_calendar(textIn, with_setup_time, zoom_info)
                     EXCEPT !.fn = IF zoom_info = NoneVal THEN "make_calendar"
                                   ELSE "make_calendar(zoom_info)"]
    /\ UNCHANGED textIn
    /\ UNCHANGED <<streamVars, sheetVars, regVars, mailVars, schedVars>>

InitPublicText ==
    /\ IdleStream /\ IdleSheet /\ IdleReg /\ IdleMail /\ IdleSched
    /\ \E n \in 1..MaxSlots :
          \E public \in PublicCells(n), zoom \in ZoomTriples,
             names \in {<<"VIS Full Papers", "Session 1">>, <<"Keynote", "Keynote">>} :
             textIn = [event |-> names[1], name |-> names[2], month |-> 10, day |-> 25,
                       slots |-> [t \in 1..n |-> WithZoom(public[t], zoom)]]
    /\ textOut = NoTextResult

NextPublicText ==
    \/ Str
    \/ SessionYoutubeDescription
    \/ \E with_setup_time \in BOOLEAN, zoom_info \in {NoneVal, "zoom_info"} :
          MakeCalendar(with_setup_time, zoom_info)

SpecPublicText == InitPublicText /\ [][NextPublicText]_vars

(***************************************************************************)
(* The time and length of the Zoom meeting (schedule_zoom, lines 452-470). *)
(***************************************************************************)

\* Line 455: the minutes a meeting may run over.
ZoomOverrun == 10

\* The minutes from the start of CONFERENCE_YEAR in UTC to a datetime: what
\* the subtraction of two aware datetimes and astimezone go by.
Instant(time) ==
    ((DaysBefore[time.month] + time.day - 1) * 24 + time.hour - time.utcoffset) * 60
        + time.minute

\* The month a day of the year falls in.
MonthOfDay(d) ==
    CHOOSE m \in 1..12 : DaysBefore[m] < d /\ (m = 12 \/ d <= DaysBefore[m + 1])

\* The datetime of an instant of the year in the zone utcoffset hours off UTC.
AtOffset(instant, utcoffset) ==
    LET local == instant + 60 * utcoffset
        d == (local \div 1440) + 1
    IN [year |-> CONFERENCE_YEAR, month |-> MonthOfDay(d),
        day |-> d - DaysBefore[MonthOfDay(d)],
        hour |-> (local % 1440) \div 60, minute |-> local % 60,
        utcoffset |-> utcoffset]

\* time + timedelta(minutes=m).
PlusMinutes(time, m) == AtOffset(Instant(time) + m, time.utcoffset)

\* time.astimezone(tz=timezone.utc).strftime("%Y-%m-%dT%H:%M:%SZ") (line 468);
\* the seconds of a parsed time slot are 0.
strftime_utc(time) ==
    LET u == AtOffset(Instant(time), 0)
    IN ToString(u.year) \o "-" \o Pad2Text(u.month) \o "-" \o Pad2Text(u.day) \o "T"
          \o Pad2Text(u.hour) \o ":" \o Pad2Text(u.minute) \o ":00Z"

\* int(x / y) for an integer x: the quotient cut towards zero.
IntOfQuotient(x, y) == IF x >= 0 THEN x \div y ELSE -((-x) \div y)

\* (a - b).total_seconds() of two datetimes.
total_seconds(a, b) == 60 * (Instant(a) - Instant(b))

\* start_time and duration of meeting_info (lines 452-470), or the exception
\* session_time raised.
zoom_meeting_info(e) ==
    LET st == TextSessionTime(e)
    IN IF st.err # ""
       THEN [fn |-> "schedule_zoom", err |-> st.err, start_time |-> "", duration |-> 0]
       ELSE LET zoom_start == PlusMinutes(st.start, -setup_time(e))
                zoom_end == PlusMinutes(st.end, ZoomOverrun)
            IN [fn |-> "schedule_zoom", err |-> "",
                start_time |-> strftime_utc(zoom_start),
                duration |-> IntOfQuotient(total_seconds(zoom_end, zoom_start), 60)]

\* The "Time Slot" cells of the sessions scheduled: in the morning, right
\* after midnight, around 19:00 (midnight in UTC), across midnight, and two
\* that session_time raises on.
ZoomTimeSlotCells ==
    { Chars("0", "9", "0", "0", "-", "1", "0", "3", "0"),
      Chars("0", "0", "0", "5", "-", "0", "1", "0", "0"),
      Chars("1", "8", "5", "0", "-", "1", "9", "1", "0"),
      Chars("1", "9", "0", "5", "-", "2", "0", "0", "0"),
      Chars("2", "3", "3", "0", "-", "0", "0", "3", "0"),
      Chars("2", "3", "6", "0", "-", "0", "0", "0", "0"),
      <<"9", ":", "0", "0">> }

ZoomSlotTypes == {"Talk", "Zoom Only", "Discord Only"}

ZoomDays == { <<10, 25>>, <<10, 31>> }

NoMeetingInfo == [fn |-> "none", err |-> "", start_time |-> "", duration |-> 0]

ZoomMeetingInfo ==
    /\ textOut' = zoom_meeting_info(textIn)
    /\ UNCHANGED textIn
    /\ UNCHANGED <<streamVars, sheetVars, regVars, mailVars, schedVars>>

InitZoomTime ==
    /\ IdleStream /\ IdleSheet /\ IdleReg /\ IdleMail /\ IdleSched
    /\ \E n \in 1..MaxSlots, d \in ZoomDays :
          \E slots \in [1..n -> [TimeSlot : ZoomTimeSlotCells,
                                 TimeSlotType : ZoomSlotTypes]] :
             textIn = [month |-> d[1], day |-> d[2], slots |-> slots]
    /\ textOut = NoMeetingInfo

NextZoomTime == ZoomMeetingInfo

SpecZoomTime == InitZoomTime /\ [][NextZoomTime]_vars

(***************************************************************************)
(* Claims about the text helpers.                                          *)
(***************************************************************************)

\* The character the helpers put in place of c.
Cleaned(c) == IF c \in {"<", ">"} THEN " " ELSE c

\* out is the input, cleaned, when that is within the limit, and else a
\* prefix of it within the limit.
ShortenedTo(out, in, limit) ==
    /\ Len(out) <= limit
    /\ Len(in) <= limit => Len(out) = Len(in)
    /\ Len(out) <= Len(in)
    /\ \A i \in 1..Len(out) : CharAt(out, i) = Cleaned(CharAt(in, i))

\* C14: make_youtube_title returns at most 100 characters and
\* make_youtube_description at most 5000, without '<' or '>': the input with
\* both replaced by spaces when that is within the limit, and else a prefix
\* of it.
C14_YoutubeTextsWithinLimits ==
    /\ textOut.fn = "make_youtube_title" =>
          ShortenedTo(textOut.value, textIn, YoutubeTitleLimit)
    /\ textOut.fn = "make_youtube_description" =>
          ShortenedTo(textOut.value, textIn, YoutubeDescriptionLimit)

C14_Witness ==
    /\ textOut.fn = "make_youtube_title"
    /\ Len(textIn) = YoutubeTitleLimit + 1
    /\ CharAt(textIn, YoutubeTitleLimit) = "<"
    /\ Len(textOut.value) < Len(textIn)

\* s has the form HHMM-HHMM with hours 00-23 and minutes 00-59.
WellFormedSlot(slot) ==
    /\ Len(slot) = 9
    /\ \A i \in {1, 2, 3, 4, 6, 7, 8, 9} : \E d \in 1..10 : Digits[d] = slot[i]
    /\ slot[5] = "-"
    /\ \A i \in {1, 6} :
          /\ slot[i] \in {"0", "1"} \/ (slot[i] = "2" /\ slot[i + 1] \in {"0", "1", "2", "3"})
          /\ slot[i + 2] \in {"0", "1", "2", "3", "4", "5"}

\* C15: for a time slot text of the form HHMM-HHMM with valid hours and
\* minutes, parse_time_slot returns, and format_time_slot of what it
\* returned is the text again.
C15_TimeSlotRoundTrip ==
    WellFormedSlot(textIn.time_slot) =>
        /\ textOut.fn = "parse_time_slot" => textOut.parsed.err = ""
        /\ textOut.fn = "format_time_slot" => textOut.value = textIn.time_slot

C15_Witness ==
    /\ textOut.fn = "format_time_slot"
    /\ textIn.time_slot = <<"0", "9", "0", "0", "-", "2", "3", "5", "9">>
    /\ textOut.value = textIn.time_slot
    /\ textOut.parsed.start.hour = 9 /\ textOut.parsed.end.minute = 59

ChannelChars == CharsOf("abcdefghijklmnopqrstuvwxyz0123456789-")

\* C16: chat_channel_name returns "general" for a Tutorial and for a session
\* named as its event, and else at most 100 characters, each a lower-case
\* letter, a digit or '-', no two '-' in a row.
C16_ChannelNameIsValid ==
    textOut.fn = "chat_channel_name" =>
        IF textIn.event_type = "Tutorial" \/ textIn.event = textIn.name
        THEN textOut.value = "general"
        ELSE /\ Len(textOut.value) <= 100
             /\ \A i \in 1..Len(textOut.value) : CharAt(textOut.value, i) \in ChannelChars
             /\ \A i \in 1..(Len(textOut.value) - 1) :
                   ~(CharAt(textOut.value, i) = "-" /\ CharAt(textOut.value, i + 1) = "-")

C16_Witness ==
    /\ textOut.fn = "chat_channel_name"
    /\ textIn.event_type # "Tutorial" /\ textIn.event # textIn.name
    /\ textIn.name = "-&-"
    /\ textOut.value = "-"

\* The session with the Zoom cells of its time slots replaced by zoom.
ZoomCellsReplaced(e, zoom) ==
    [e EXCEPT !.slots = [t \in DOMAIN e.slots |-> WithZoom(e.slots[t], zoom[t])]]

\* The sessions that differ from the input in Zoom cells only.
ZoomVariants == {ZoomCellsReplaced(textIn, zoom) : zoom \in [DOMAIN textIn.slots -> ZoomTriples]}

\* C13: str(session), the YouTube description made of it and make_calendar
\* without zoom_info return the same for every session that differs from
\* this one only in the Zoom cells of its time slots.
C13_PublicTextsHoldNoZoomInfo ==
    textOut.err = "" =>
        \A other \in ZoomVariants :
            /\ textOut.fn = "str" => str(other) = textOut.text
            /\ textOut.fn = "make_youtube_description" =>
                  session_youtube_description(other) = textOut
            /\ textOut.fn = "make_calendar" =>
                  \E with_setup_time \in BOOLEAN :
                      make_calendar(other, with_setup_time, NoneVal) = textOut

C13_Witness ==
    /\ textOut.fn = "make_calendar" /\ textOut.err = ""
    /\ Len(textIn.slots) = 2
    /\ textIn.slots[1].ZoomURL = "https://zoom.us/j/1"
    /\ textIn.slots[1].YoutubeBroadcast # NoneVal
    /\ textOut.calendar.description = str(textIn)
    /\ textOut.calendar.begin.minute = 45

\* The minutes from midnight written at characters i..i+3 of a cell (HHMM).
CellMinutes(cell, i) == 60 * TwoDigits(cell, i) + TwoDigits(cell, i + 2)

\* The number written at characters i and i+1 of a text.
NumberAt(text, i) == 10 * DigitVal(CharAt(text, i)) + DigitVal(CharAt(text, i + 1))

\* The minutes from the start of the year to the UTC time a start_time reads.
StartTimeMinutes(text) ==
    ((DaysBefore[NumberAt(text, 6)] + NumberAt(text, 9) - 1) * 24 + NumberAt(text, 12)) * 60
        + NumberAt(text, 15)

\* The setup time the claim gives a session, in minutes.
ClaimedSetup(e) == IF e.slots[1].TimeSlotType = "Zoom Only" THEN 0 ELSE 15

====
